---- MODULE Spec2Model ----
(***************************************************************************)
(* ts-audio container pipeline: the Muxer base class with its AsyncMutex,  *)
(* the five format muxers and demuxers (MP3, WAV, FLAC, AAC/ADTS, OGG),    *)
(* modelled at the level of the bytes that reach the Writer and the bytes  *)
(* a Reader hands to a demuxer.                                            *)
(*                                                                         *)
(* A byte is a number 0..255, a buffer (Uint8Array) a sequence of bytes.   *)
(* An async method is split at its await points: the synchronous prefix of *)
(* a call is one action, every resumption after an await is another.       *)
(***************************************************************************)
EXTENDS Integers, Sequences, FiniteSets, TLC

(***************************************************************************)
(* Bounds of the model                                                     *)
(***************************************************************************)
MaxCalls == 3
MaxTracks == 1
MaxReads == 4
MaxReaderCalls == 3
MaxWriterCalls == 4
MaxRegistrations == 3
MaxAutoCalls == 4
MaxBitCalls == 4
MaxInputCalls == 4

Formats == {"mp3", "wav", "aac", "flac", "ogg"}

VARIABLES
  fmt,            \* which Muxer / Demuxer subclass is under study
  locked,         \* AsyncMutex.locked
  queue,          \* AsyncMutex.queue: resolvers of suspended callers, as task ids
  tracks,         \* Muxer.tracks: sequence of OutputAudioTrack ids
  nextTrackId,    \* Muxer.nextTrackId
  headerWritten,  \* Muxer.headerWritten
  finalized,      \* Muxer.finalized
  cfg,            \* subclass fields set by onTrackAdded
  packets,        \* subclass packet buffer (packets / audioData)
  out,            \* Writer.buffers, concatenated
  tasks,          \* the writePacket / finalize calls made so far
  hist,           \* history: counts of writeHeader / writeTrailer, entry order
  source,         \* the bytes behind the demuxer's Reader
  dmx,            \* demuxer fields
  readLog,        \* results of the readPacket calls made so far
  conv,           \* Conversion fields and its position in initialize/execute
  rdr,            \* Reader: source, position, cached slice
  wtr,            \* Writer on a stream target, and what the stream received
  registry,       \* FormatRegistry: registered input and output formats
  auto,           \* AutoWavMuxer fields, and what its finalize emitted
  bits,           \* BitWriter / BitReader fields and the calls made on them
  inp             \* Input fields and the accessor calls in flight

muxVars == <<locked, queue, tracks, nextTrackId, headerWritten, finalized,
             cfg, packets, out, tasks, hist>>
demuxVars == <<source, dmx, readLog>>
libVars == <<conv, rdr, wtr, registry>>
extVars == <<auto, bits, inp>>
vars == <<fmt, locked, queue, tracks, nextTrackId, headerWritten, finalized,
          cfg, packets, out, tasks, hist, source, dmx, readLog,
          conv, rdr, wtr, registry, auto, bits, inp>>

(***************************************************************************)
(* Buffers                                                                 *)
(***************************************************************************)
RECURSIVE Concat(_)
Concat(bufs) == IF Len(bufs) = 0 THEN <<>> ELSE Head(bufs) \o Concat(Tail(bufs))

RECURSIVE SumLen(_)
SumLen(bufs) == IF Len(bufs) = 0 THEN 0 ELSE Len(Head(bufs)) + SumLen(Tail(bufs))

Zeros(n) == [i \in 1..n |-> 0]

\* data.subarray(from, to) with 0-based, end-exclusive indices
Subarray(data, from, to) ==
  LET f == IF from > Len(data) THEN Len(data) ELSE from
      t == IF to > Len(data) THEN Len(data) ELSE to
  IN IF t <= f THEN <<>> ELSE SubSeq(data, f + 1, t)

\* 0-based element access data[i]
At(data, i) == data[i + 1]

\* The element of a one-element set.  Only({F(x) : x \in {v}}) is F applied
\* to the value of v, with v evaluated once (a local const of the code).
Only(S) == CHOOSE r \in S : TRUE

\* bit k of x
Bit(x, k) == (x \div (2 ^ k)) % 2

\* a ^ b on 4-bit values
Xor4(a, b) ==
  ((Bit(a, 0) + Bit(b, 0)) % 2)
    + 2 * ((Bit(a, 1) + Bit(b, 1)) % 2)
    + 4 * ((Bit(a, 2) + Bit(b, 2)) % 2)
    + 8 * ((Bit(a, 3) + Bit(b, 3)) % 2)

RECURSIVE Xor4Row(_, _)
Xor4Row(a, b) == IF b > 15 THEN <<>> ELSE <<Xor4(a, b)>> \o Xor4Row(a, b + 1)

RECURSIVE Xor4Rows(_)
Xor4Rows(a) == IF a > 15 THEN <<>> ELSE <<Xor4Row(a, 0)>> \o Xor4Rows(a + 1)

\* Xor4Table[a + 1][b + 1] = a ^ b
Xor4Table == Xor4Rows(0)

\* a ^ b on bytes, one nibble at a time
Xor8(a, b) ==
  16 * Xor4Table[(a \div 16) + 1][(b \div 16) + 1]
    + Xor4Table[(a % 16) + 1][(b % 16) + 1]

(***************************************************************************)
(* Writer: typed writers (each ends in writeBytes, which appends)          *)
(***************************************************************************)
writeU8(v) == <<v % 256>>
writeU16LE(v) == <<v % 256, (v \div 256) % 256>>
writeU16BE(v) == <<(v \div 256) % 256, v % 256>>
writeU24BE(v) == <<(v \div 65536) % 256, (v \div 256) % 256, v % 256>>
writeU32LE(v) ==
  <<v % 256, (v \div 256) % 256, (v \div 65536) % 256, (v \div 16777216) % 256>>
writeU32BE(v) ==
  <<(v \div 16777216) % 256, (v \div 65536) % 256, (v \div 256) % 256, v % 256>>

\* writeFourCC: four char codes, padded with 0x20 if short, truncated if long
writeFourCC(chars) == [i \in 1..4 |-> IF i <= Len(chars) THEN chars[i] ELSE 32]

\* DataView.setBigInt64(_, v, true): two's complement, little endian.
\* For v < 0 the bytes are the complement of -v - 1.
RECURSIVE LEBytes(_, _)
LEBytes(v, n) == IF n = 0 THEN <<>> ELSE <<v % 256>> \o LEBytes(v \div 256, n - 1)

setBigInt64LE(v) ==
  IF v >= 0 THEN LEBytes(v, 8)
  ELSE [i \in 1..8 |-> 255 - LEBytes(-v - 1, 8)[i]]

\* ASCII
S_RIFF == <<82, 73, 70, 70>>
S_WAVE == <<87, 65, 86, 69>>
S_fmt  == <<102, 109, 116, 32>>
S_data == <<100, 97, 116, 97>>
S_fLaC == <<102, 76, 97, 67>>
S_OggS == <<79, 103, 103, 83>>
S_OpusHead == <<79, 112, 117, 115, 72, 101, 97, 100>>
S_OpusTags == <<79, 112, 117, 115, 84, 97, 103, 115>>
S_vorbis == <<118, 111, 114, 98, 105, 115>>
S_FLAC == <<70, 76, 65, 67>>

(***************************************************************************)
(* Track configurations handed to addAudioTrack.  Every one asks for       *)
(* 44100 Hz, 2 channels and leaves bitDepth / sampleFormat unset.  Only    *)
(* the OGG muxer looks at codec and codecDescription.                      *)
(***************************************************************************)
\* OpusHead identification header (19 bytes): version 1, 2 channels,
\* pre-skip 0, input sample rate 44100, gain 0, mapping family 0
OpusHeadPacket ==
  S_OpusHead \o <<1, 2, 0, 0>> \o writeU32LE(44100) \o <<0, 0, 0>>

\* Vorbis identification header (30 bytes): 2 channels, 44100 Hz
VorbisIdPacket ==
  <<1>> \o S_vorbis \o Zeros(4) \o <<2>> \o writeU32LE(44100) \o Zeros(12)
    \o <<184, 1>>

TrackConfigs(f) ==
  IF f = "ogg"
  THEN { [sampleRate |-> 44100, channels |-> 2, codec |-> "opus",
          hasDescription |-> FALSE, codecDescription |-> <<>>],
         [sampleRate |-> 44100, channels |-> 2, codec |-> "opus",
          hasDescription |-> TRUE, codecDescription |-> OpusHeadPacket],
         [sampleRate |-> 44100, channels |-> 2, codec |-> "vorbis",
          hasDescription |-> TRUE, codecDescription |-> VorbisIdPacket] }
  ELSE { [sampleRate |-> 44100, channels |-> 2,
          codec |-> IF f = "wav" THEN "pcm" ELSE f,
          hasDescription |-> FALSE, codecDescription |-> <<>>] }

\* The configuration used where the choice of codec plays no part
DefaultConfig(f) ==
  [sampleRate |-> 44100, channels |-> 2,
   codec |-> IF f = "ogg" THEN "opus" ELSE IF f = "wav" THEN "pcm" ELSE f,
   hasDescription |-> f = "ogg",
   codecDescription |-> IF f = "ogg" THEN OpusHeadPacket ELSE <<>>]

\* Field initialisers of the muxer subclasses
InitialFields(f) ==
  [sampleRate |-> IF f = "ogg" THEN 48000 ELSE 44100,
   channels |-> 2,
   bitsPerSample |-> 16,
   isFloat |-> FALSE,
   codec |-> IF f = "ogg" THEN "opus" ELSE f,
   hasPrivate |-> FALSE,
   codecPrivate |-> <<>>]

\* onTrackAdded of the subclasses (bitDepth ?? 16, sampleFormat undefined)
onTrackAdded(f, old, config) ==
  [sampleRate |-> config.sampleRate,
   channels |-> config.channels,
   bitsPerSample |-> 16,
   isFloat |-> FALSE,
   codec |-> IF f = "ogg" THEN config.codec ELSE old.codec,
   hasPrivate |-> IF f = "ogg" THEN config.hasDescription ELSE old.hasPrivate,
   codecPrivate |-> IF f = "ogg" THEN config.codecDescription ELSE old.codecPrivate]

(***************************************************************************)
(* AAC muxer                                                               *)
(***************************************************************************)
AAC_SAMPLE_RATES ==
  <<96000, 88200, 64000, 48000, 44100, 32000, 24000, 22050, 16000, 12000,
    11025, 8000, 7350>>

getSampleRateIndex(sampleRate) ==
  IF \E i \in 1..Len(AAC_SAMPLE_RATES) : AAC_SAMPLE_RATES[i] = sampleRate
  THEN (CHOOSE i \in 1..Len(AAC_SAMPLE_RATES) : AAC_SAMPLE_RATES[i] = sampleRate) - 1
  ELSE 4

createAdtsHeader(profile, sampleRateIndex, channels, frameLength) ==
  << 255,
     241,
     ((profile % 4) * 64 + (sampleRateIndex % 16) * 4 + ((channels \div 4) % 2)) % 256,
     ((channels % 4) * 64 + ((frameLength \div 2048) % 4)) % 256,
     (frameLength \div 8) % 256,
     (frameLength % 8) * 32 + 31,
     252 >>

\* packet.data[0] === 0xFF && (packet.data[1] & 0xF0) === 0xF0
HasAdtsSync(data) ==
  /\ Len(data) >= 2
  /\ data[1] = 255
  /\ data[2] \div 16 = 15

AacWriteAudioPacket(c, data) ==
  IF HasAdtsSync(data) THEN data
  ELSE createAdtsHeader(1, getSampleRateIndex(c.sampleRate), c.channels,
                        7 + Len(data)) \o data

(***************************************************************************)
(* WAV muxer                                                               *)
(***************************************************************************)
WAVE_FORMAT_PCM == 1
WAVE_FORMAT_IEEE_FLOAT == 3

WavWriteTrailer(c, audioData) ==
  LET totalDataSize == SumLen(audioData)
      bytesPerSample == c.bitsPerSample \div 8
      blockAlign == c.channels * bytesPerSample
      byteRate == c.sampleRate * blockAlign
      formatCode == IF c.isFloat THEN WAVE_FORMAT_IEEE_FLOAT ELSE WAVE_FORMAT_PCM
  IN writeFourCC(S_RIFF) \o writeU32LE(36 + totalDataSize) \o writeFourCC(S_WAVE)
     \o writeFourCC(S_fmt) \o writeU32LE(16) \o writeU16LE(formatCode)
     \o writeU16LE(c.channels) \o writeU32LE(c.sampleRate) \o writeU32LE(byteRate)
     \o writeU16LE(blockAlign) \o writeU16LE(c.bitsPerSample)
     \o writeFourCC(S_data) \o writeU32LE(totalDataSize)
     \o Concat(audioData)

(***************************************************************************)
(* FLAC muxer                                                              *)
(***************************************************************************)
BLOCK_STREAMINFO == 0

FlacStreamInfoBytes(c, nPackets) ==
  LET totalSamples == 4096 * nPackets
  IN writeU16BE(4096) \o writeU16BE(4096) \o Zeros(6)
     \o << (c.sampleRate \div 4096) % 256,
           (c.sampleRate \div 16) % 256,
           ((c.sampleRate % 16) * 16 + (c.channels - 1) * 2
              + ((c.bitsPerSample - 1) \div 16)) % 256,
           (((c.bitsPerSample - 1) % 16) * 16) % 256 >>
     \o writeU32BE(totalSamples)
     \o Zeros(16)

FlacWriteTrailer(c, pkts) ==
  writeU8(128 + BLOCK_STREAMINFO) \o writeU24BE(34)
    \o FlacStreamInfoBytes(c, Len(pkts)) \o Concat(pkts)

(***************************************************************************)
(* OGG muxer.  A 32-bit word is kept as four bytes, most significant       *)
(* first, so that the CRC arithmetic stays inside 0..255.                  *)
(***************************************************************************)
HEADER_TYPE_CONTINUATION == 1
HEADER_TYPE_BOS == 2
HEADER_TYPE_EOS == 4

OggSerialNumber == 1

XorWord(a, b) == <<Xor8(a[1], b[1]), Xor8(a[2], b[2]), Xor8(a[3], b[3]), Xor8(a[4], b[4])>>

\* (r << 1) on 32 bits
ShiftLeft1(w) ==
  << ((w[1] * 2) % 256) + (w[2] \div 128),
     ((w[2] * 2) % 256) + (w[3] \div 128),
     ((w[3] * 2) % 256) + (w[4] \div 128),
     (w[4] * 2) % 256 >>

OGG_CRC_POLY == <<4, 193, 29, 183>>

RECURSIVE CrcTableEntry(_, _)
CrcTableEntry(r, j) ==
  IF j = 0 THEN r
  ELSE Only({CrcTableEntry(next, j - 1) :
               next \in {IF r[1] >= 128 THEN XorWord(ShiftLeft1(r), OGG_CRC_POLY)
                         ELSE ShiftLeft1(r)}})

\* entries lo..hi of the table, as a sequence
RECURSIVE CrcTableRange(_, _)
CrcTableRange(lo, hi) ==
  IF lo = hi THEN <<CrcTableEntry(<<lo, 0, 0, 0>>, 8)>>
  ELSE CrcTableRange(lo, (lo + hi) \div 2)
         \o CrcTableRange((lo + hi) \div 2 + 1, hi)

\* OGG_CRC_TABLE[i + 1] is the code's OGG_CRC_TABLE[i]
OGG_CRC_TABLE == CrcTableRange(0, 255)

\* one iteration of the loop of calculateOggCrc:
\* crc = ((crc << 8) ^ OGG_CRC_TABLE[(crc >>> 24) ^ data[i]]) >>> 0
OggCrcStep(crc, byte) ==
  Only({XorWord(<<crc[2], crc[3], crc[4], 0>>, entry) :
          entry \in {OGG_CRC_TABLE[Xor8(crc[1], byte) + 1]}})

\* the loop over data[lo..hi] (1-based, inclusive), split in halves to keep
\* the evaluation shallow
RECURSIVE OggCrcRange(_, _, _, _)
OggCrcRange(crc, data, lo, hi) ==
  IF lo > hi THEN crc
  ELSE IF lo = hi THEN OggCrcStep(crc, data[lo])
  ELSE Only({Only({OggCrcRange(left, data, mid + 1, hi) :
                     left \in {OggCrcRange(crc, data, lo, mid)}}) :
               mid \in {(lo + hi) \div 2}})

calculateOggCrc(data) ==
  Only({OggCrcRange(<<0, 0, 0, 0>>, d, 1, Len(d)) : d \in {data}})

\* Math.ceil(data.length / 255)
SegmentCount(len) == (len + 254) \div 255

SegmentTable(len) ==
  [i \in 1..SegmentCount(len) |->
     IF len - 255 * (i - 1) < 255 THEN len - 255 * (i - 1) ELSE 255]

\* the page with the checksum field still zero
PageBeforeCrc(data, granulePosition, headerType, pageSequence) ==
  S_OggS \o <<0, headerType % 256>> \o setBigInt64LE(granulePosition)
    \o writeU32LE(OggSerialNumber) \o writeU32LE(pageSequence)
    \o Zeros(4) \o <<SegmentCount(Len(data)) % 256>>
    \o SegmentTable(Len(data)) \o data

\* view.setUint32(22, crc, true)
SetCrc(page, crc) ==
  SubSeq(page, 1, 22) \o <<crc[4], crc[3], crc[2], crc[1]>>
    \o SubSeq(page, 27, Len(page))

writePage(data, granulePosition, headerType, pageSequence) ==
  Only({Only({SetCrc(page, crc) : crc \in {calculateOggCrc(page)}}) :
          page \in {PageBeforeCrc(data, granulePosition, headerType, pageSequence)}})

GranuleStep(codec) == IF codec = "opus" THEN 960 ELSE 1024

RECURSIVE OggDataPages(_, _, _, _, _)
OggDataPages(pkts, i, granulePosition, pageSequence, codec) ==
  IF i > Len(pkts) THEN <<>>
  ELSE Only({writePage(pkts[i], g,
                       IF i = Len(pkts) THEN HEADER_TYPE_EOS ELSE 0, pageSequence)
                 \o OggDataPages(pkts, i + 1, g, pageSequence + 1, codec) :
               g \in {granulePosition + GranuleStep(codec)}})

OggWriteTrailer(c, pkts) ==
  IF c.hasPrivate
  THEN writePage(c.codecPrivate, 0, HEADER_TYPE_BOS, 0)
         \o OggDataPages(pkts, 1, 0, 1, c.codec)
  ELSE OggDataPages(pkts, 1, 0, 0, c.codec)

(***************************************************************************)
(* The three abstract methods of Muxer, per subclass                       *)
(***************************************************************************)
\* the bytes writeHeader hands to the Writer
writeHeader(f) == IF f = "flac" THEN writeFourCC(S_fLaC) ELSE <<>>

\* writeAudioPacket: every subclass buffers; the result is the new buffer
writeAudioPacket(f, c, pkts, data) ==
  IF f = "aac" THEN Append(pkts, AacWriteAudioPacket(c, data))
  ELSE Append(pkts, data)

\* the bytes writeTrailer hands to the Writer
writeTrailer(f, c, pkts) ==
  CASE f = "wav"  -> WavWriteTrailer(c, pkts)
    [] f = "flac" -> FlacWriteTrailer(c, pkts)
    [] f = "ogg"  -> OggWriteTrailer(c, pkts)
    [] OTHER      -> Concat(pkts)

\* quick checks of the byte operators against hand-computed values
ByteSelfTest ==
  /\ Xor8(170, 255) = 85
  /\ Xor8(60, 165) = 153
  /\ OGG_CRC_TABLE[2] = <<4, 193, 29, 183>>
  /\ Len(OGG_CRC_TABLE) = 256
  /\ setBigInt64LE(-1) = <<255, 255, 255, 255, 255, 255, 255, 255>>
  /\ writeU32LE(44100) = <<68, 172, 0, 0>>
  /\ writePage(<<1, 2, 3>>, 960, 4, 0) =
       <<79, 103, 103, 83, 0, 4, 192, 3, 0, 0, 0, 0, 0, 0, 1, 0, 0, 0,
         0, 0, 0, 0, 231, 17, 254, 237, 1, 3, 1, 2, 3>>

(***************************************************************************)
(* Reader over a buffer source.  A failed read returns null (ok = FALSE)   *)
(* and leaves the position where it was.                                   *)
(***************************************************************************)
\* Reader.readBytes(length) at position pos.  The slice loaded at pos holds
\* the source bytes from pos on, so the read succeeds iff the range lies
\* inside the source; a read of length 0 always succeeds.
readBytes(src, pos, length) ==
  IF length = 0 THEN [ok |-> TRUE, data |-> <<>>, position |-> pos]
  ELSE IF pos + length <= Len(src)
       THEN [ok |-> TRUE, data |-> SubSeq(src, pos + 1, pos + length),
             position |-> pos + length]
       ELSE [ok |-> FALSE, data |-> <<>>, position |-> pos]

\* DataView.getUint32(o, true) / getUint16(o, true) / getUint32(o, false)
getUint32LE(data, o) ==
  At(data, o) + 256 * At(data, o + 1) + 65536 * At(data, o + 2)
    + 16777216 * At(data, o + 3)
getUint16LE(data, o) == At(data, o) + 256 * At(data, o + 1)
getUint16BE(data, o) == 256 * At(data, o) + At(data, o + 1)

\* DataView.getBigInt64(o, true): two's complement, little endian
RECURSIVE LEValue(_, _, _)
LEValue(data, o, n) ==
  IF n = 0 THEN 0 ELSE At(data, o) + 256 * LEValue(data, o + 1, n - 1)

getBigInt64LE(data, o) ==
  IF At(data, o + 7) >= 128
  THEN -(LEValue([i \in 1..8 |-> 255 - At(data, o + i - 1)], 0, 8) + 1)
  ELSE LEValue(data, o, 8)

\* String.fromCharCode(...data.subarray(from, to)) === text
IsText(data, from, to, text) == Subarray(data, from, to) = text

(***************************************************************************)
(* Timestamps.  The code computes them in double precision; the model      *)
(* keeps the exact quotient num / den.  den = 0 stands for the result of a *)
(* division by zero (an infinity, or NaN when num = 0 as well).            *)
(***************************************************************************)
RECURSIVE Gcd(_, _)
Gcd(a, b) == IF b = 0 THEN a ELSE Gcd(b, a % b)

Lcm(a, b) == (a \div Gcd(a, b)) * b

Quotient(n, d) ==
  IF d = 0 THEN [num |-> n, den |-> 0]
  ELSE LET g == Gcd(IF n < 0 THEN -n ELSE n, d)
       IN [num |-> n \div g, den |-> d \div g]

\* a + b
TsAdd(a, b) ==
  LET l == Lcm(a.den, b.den)
  IN Quotient(a.num * (l \div a.den) + b.num * (l \div b.den), l)

\* a <= b as the comparison of two numbers (false when either is NaN)
TsLeq(a, b) ==
  IF a.den = 0 \/ b.den = 0
  THEN /\ ~(a.den = 0 /\ a.num = 0)
       /\ ~(b.den = 0 /\ b.num = 0)
       /\ \/ a.den = 0 /\ a.num < 0
          \/ b.den = 0 /\ b.num > 0
  ELSE LET l == Lcm(a.den, b.den)
       IN a.num * (l \div a.den) <= b.num * (l \div b.den)

TsZero == [num |-> 0, den |-> 1]

\* a < b
TsLt(a, b) == TsLeq(a, b) /\ ~TsLeq(b, a)

\* a - b
TsSub(a, b) == TsAdd(a, [num |-> 0 - b.num, den |-> b.den])

\* Math.min(a, b)
TsMin(a, b) == IF TsLeq(b, a) THEN b ELSE a

(***************************************************************************)
(* Demuxer base class.  One record holds the fields of the subclass under  *)
(* study: frames is the frame index (the page list of the OGG demuxer),    *)
(* index the read cursor (currentFrameIndex, currentPacketIndex, or the    *)
(* byte cursor currentPosition of the WAV demuxer), info the parsed header *)
(* fields.  phase is the position of init(): "new" before the call,        *)
(* "ready" after it returned, "failed" after it threw.                     *)
(***************************************************************************)
NewDemuxer ==
  [initialized |-> FALSE, phase |-> "new", position |-> 0, frames |-> <<>>,
   streams |-> <<>>, primary |-> 0, timestamp |-> TsZero, tracks |-> <<>>,
   duration |-> TsZero, index |-> 0, samplesRead |-> TsZero, sampleNumber |-> 0,
   info |-> [set |-> FALSE]]

(***************************************************************************)
(* Conversion (private constructor): the fields, and pc, the statement     *)
(* initialize()/execute() is at.  written lists, by position in readLog,   *)
(* the packets output.writePacket has accepted; writeThrows is the         *)
(* environment's choice that the muxer's writeAudioPacket throws for the   *)
(* call in flight; atFailure is what the counters were when execute threw. *)
(***************************************************************************)
NewConversion ==
  [pc |-> "new", hasStart |-> FALSE, startTime |-> TsZero,
   hasEnd |-> FALSE, endTime |-> TsZero,
   inputTrackId |-> 0, outputTrackId |-> 0,
   totalDuration |-> TsZero, processedTime |-> TsZero, inputBytes |-> 0,
   reports |-> 0, finalReport |-> FALSE, written |-> <<>>,
   writeThrows |-> FALSE, atFailure |-> [calls |-> 0, reports |-> 0]]

(***************************************************************************)
(* Reader.  A source of size bytes is known by its size alone: a byte      *)
(* array handed out is the range of source offsets it is a view of (from,  *)
(* length).  slice is the cached FileSlice: offset is FileSlice.offset,    *)
(* start the source offset of its first byte, length bytes.length.         *)
(* result is what the last call resolved to, before the position it was    *)
(* made at.                                                                *)
(***************************************************************************)
DEFAULT_SLICE_SIZE == 65536

NoSlice == [loaded |-> FALSE, offset |-> 0, start |-> 0, length |-> 0]

NoResult ==
  [op |-> "none", kind |-> "none", from |-> 0, length |-> 0, requested |-> 0,
   before |-> 0, reloaded |-> FALSE]

NewReaderOn(type, size) ==
  [type |-> type, size |-> size, position |-> 0, slice |-> NoSlice,
   result |-> NoResult, calls |-> 0]

NewReader == NewReaderOn("buffer", 0)

\* a containment test that looks at the start of the range only
containsStart(slice, pos, length) == slice.loaded /\ pos >= slice.offset

\* this.slice?.contains(pos, length)
FileSliceContains(slice, pos, length) ==
  /\ slice.loaded
  /\ pos >= slice.offset
  /\ pos + length <= slice.offset + slice.length

\* FileSlice.get: bytes.subarray(start, start + length), which clamps both
\* ends to the bytes the slice holds
FileSliceGet(slice, pos, length) ==
  LET start == IF pos - slice.offset > slice.length THEN slice.length
               ELSE pos - slice.offset
      end == IF pos - slice.offset + length > slice.length THEN slice.length
             ELSE pos - slice.offset + length
  IN [from |-> slice.start + start, length |-> IF end > start THEN end - start ELSE 0]

\* loadSlice(offset, length) on a buffer source, offset >= 0:
\* sourceData.subarray(offset, Math.min(offset + length, sourceData.length))
loadSlice(r, offset, length) ==
  LET end == IF offset + length < r.size THEN offset + length ELSE r.size
      start == IF offset < r.size THEN offset ELSE r.size
  IN [loaded |-> TRUE, offset |-> offset, start |-> start,
      length |-> IF end > start THEN end - start ELSE 0]

\* Reader.readBytes(length); a stream source makes loadSlice throw
ReaderReadBytes(r, length) ==
  LET done(slice, reloaded) ==
        LET bytes == FileSliceGet(slice, r.position, length)
        IN [r EXCEPT !.position = @ + length,
                     !.slice = slice,
                     !.result = [op |-> "readBytes", kind |-> "bytes",
                                 from |-> bytes.from, length |-> bytes.length,
                                 requested |-> length, before |-> r.position,
                                 reloaded |-> reloaded]]
      failed(slice, kind, reloaded) ==
        [r EXCEPT !.slice = slice,
                  !.result = [NoResult EXCEPT !.op = "readBytes", !.kind = kind,
                                              !.requested = length,
                                              !.before = r.position,
                                              !.reloaded = reloaded]]
      size == IF length > DEFAULT_SLICE_SIZE THEN length ELSE DEFAULT_SLICE_SIZE
  IN IF FileSliceContains(r.slice, r.position, length) THEN done(r.slice, FALSE)
     ELSE IF r.type = "stream" THEN failed(r.slice, "error", FALSE)
     ELSE LET slice == loadSlice(r, r.position, size)
          IN IF FileSliceContains(slice, r.position, length) THEN done(slice, TRUE)
             ELSE failed(slice, "null", TRUE)


(***************************************************************************)
(* Writer on a buffer or stream target.  received is what the writable     *)
(* stream of a stream target has been handed, written every byte given to  *)
(* writeBytes so far, in order.                                            *)
(***************************************************************************)
NewWriterOn(type) ==
  [type |-> type, streamWriter |-> FALSE, buffers |-> <<>>, position |-> 0,
   received |-> <<>>, streamClosed |-> FALSE, closed |-> FALSE,
   returned |-> <<>>, written |-> <<>>, calls |-> 0]

NewWriter == NewWriterOn("buffer")

\* Writer.init(): a stream target gets its streamWriter
WriterInit(w) ==
  IF w.type = "stream" THEN [w EXCEPT !.streamWriter = TRUE] ELSE w

\* the test of writeBytes and close: a stream target whose streamWriter is set
hasStreamWriter(w) == w.type = "stream" /\ w.streamWriter

\* Writer.writeBytes(data); writing to a closed stream rejects
WriterWriteBytes(w, data) ==
  IF hasStreamWriter(w)
  THEN IF w.streamClosed THEN w
       ELSE [w EXCEPT !.received = @ \o data, !.position = @ + Len(data),
                      !.written = @ \o data]
  ELSE [w EXCEPT !.buffers = @ \o data, !.position = @ + Len(data),
                 !.written = @ \o data]

\* Writer.close(): closes the stream and returns an empty array, or returns
\* getBuffer(); closing a closed stream rejects
WriterClose(w) ==
  IF hasStreamWriter(w)
  THEN IF w.streamClosed THEN w
       ELSE [w EXCEPT !.streamClosed = TRUE, !.closed = TRUE, !.returned = <<>>]
  ELSE [w EXCEPT !.closed = TRUE, !.returned = w.buffers]


(***************************************************************************)
(* Format registration.  inputFormats / outputFormats are the arrays of    *)
(* the input and output modules, inputMap / outputMap the Maps of the      *)
(* FormatRegistry in insertion order.  A format is an object: its name and *)
(* which instance of the class it is.  detect is what the last             *)
(* detectFormat did: the formats whose canRead it called, in call order,   *)
(* and what it returned.                                                   *)
(***************************************************************************)
NoDetection ==
  [done |-> FALSE, formats |-> <<>>, asked |-> <<>>, found |-> FALSE,
   format |-> [name |-> "", instance |-> 0], error |-> FALSE]

NewRegistry ==
  [inputFormats |-> <<>>, outputFormats |-> <<>>, inputMap |-> <<>>,
   outputMap |-> <<>>, detect |-> NoDetection, calls |-> 0]

\* Map.set(format.name, format): a new key goes last, an existing key keeps
\* its place and gets the new value
MapSet(map, format) ==
  IF \E i \in 1..Len(map) : map[i].name = format.name
  THEN [i \in 1..Len(map) |-> IF map[i].name = format.name THEN format ELSE map[i]]
  ELSE Append(map, format)


(***************************************************************************)
(* AutoWavMuxer.  Byte counts run past 2^31, so a count is kept as the     *)
(* pair hi * 65536 + lo; a packet is kept as its length.                   *)
(***************************************************************************)
Big(hi, lo) == [hi |-> hi, lo |-> lo]

BigAdd(a, b) ==
  Big(a.hi + b.hi + ((a.lo + b.lo) \div 65536), (a.lo + b.lo) % 65536)

\* a < b
BigLt(a, b) == a.hi < b.hi \/ (a.hi = b.hi /\ a.lo < b.lo)

\* AutoWavMuxer.MAX_WAV_SIZE = 0xFFFFFFFF - 100
MAX_WAV_SIZE == Big(65535, 65435)

NewAutoWavMuxer ==
  [hasTrack |-> FALSE, headerWritten |-> FALSE, finalized |-> FALSE,
   audioData |-> <<>>, totalDataSize |-> Big(0, 0), needsRf64 |-> FALSE,
   out |-> <<>>, calls |-> 0, everNeeded |-> FALSE, atFinal |-> <<>>]

\* a writeAudioPacket that upgrades as soon as the total reaches the limit
AutoWriteAtLimit(a, length) ==
  LET total == BigAdd(a.totalDataSize, length)
  IN [a EXCEPT !.audioData = Append(@, length),
               !.totalDataSize = total,
               !.needsRf64 = @ \/ ~BigLt(total, MAX_WAV_SIZE)]

\* AutoWavMuxer.writeAudioPacket for a packet of the given length
AutoWriteAudioPacket(a, length) ==
  LET total == BigAdd(a.totalDataSize, length)
  IN [a EXCEPT !.audioData = Append(@, length),
               !.totalDataSize = total,
               !.needsRf64 = @ \/ BigLt(MAX_WAV_SIZE, total)]

(***************************************************************************)
(* BitWriter                                                               *)
(***************************************************************************)
NewBitWriter ==
  [buffers |-> <<>>, currentByte |-> 0, bitPos |-> 0, totalBits |-> 0]

\* BitWriter.writeBit
BwWriteBit(w, bit) ==
  LET currentByte == w.currentByte * 2 + (bit % 2)
  IN IF w.bitPos + 1 = 8
     THEN [w EXCEPT !.buffers = Append(@, currentByte), !.currentByte = 0,
                    !.bitPos = 0, !.totalBits = @ + 1]
     ELSE [w EXCEPT !.currentByte = currentByte, !.bitPos = @ + 1,
                    !.totalBits = @ + 1]

\* BitWriter.writeBits for 0 <= value and count <= 32: bits count-1 .. 0
RECURSIVE BwWriteBits(_, _, _)
BwWriteBits(w, value, count) ==
  IF count <= 0 THEN w
  ELSE Only({BwWriteBits(next, value, count - 1) :
               next \in {BwWriteBit(w, Bit(value, count - 1))}})

\* BitWriter.writeUnary: value zeros, then a one
RECURSIVE BwWriteUnary(_, _)
BwWriteUnary(w, value) ==
  IF value <= 0 THEN BwWriteBit(w, 1)
  ELSE Only({BwWriteUnary(next, value - 1) : next \in {BwWriteBit(w, 0)}})

\* the zig-zag code of writeRice: value >= 0 ? value * 2 : -value * 2 - 1
ZigZag(value) == IF value >= 0 THEN value * 2 ELSE (-value) * 2 - 1

\* BitWriter.writeRice
BwWriteRice(w, value, param) ==
  LET unsigned == ZigZag(value)
      quotient == unsigned \div (2 ^ param)
      remainder == unsigned % (2 ^ param)
  IN BwWriteBits(BwWriteUnary(w, quotient), remainder, param)

\* BitWriter.alignToByte(0)
RECURSIVE BwAlignToByte(_)
BwAlignToByte(w) ==
  IF w.bitPos = 0 THEN w
  ELSE Only({BwAlignToByte(next) : next \in {BwWriteBit(w, 0)}})

\* get length(): Math.ceil(this.totalBits / 8)
BwLength(w) == (w.totalBits + 7) \div 8

\* BitWriter.getBuffer: the writer it leaves and the bytes it returns
BwGetBuffer(w) ==
  LET flushBits == IF w.bitPos > 0 THEN 8 - w.bitPos ELSE 0
      flushed == BwAlignToByte(w)
      result == flushed.buffers
  IN IF flushBits > 0
     THEN [w |-> [flushed EXCEPT
                    !.buffers = SubSeq(result, 1, Len(result) - 1),
                    !.bitPos = w.bitPos,
                    !.currentByte = result[Len(result)] \div (2 ^ flushBits)],
           result |-> result]
     ELSE [w |-> flushed, result |-> result]

(***************************************************************************)
(* BitReader.  A read returns ok = FALSE where the code throws.            *)
(***************************************************************************)
NewBitReader(data) == [data |-> data, bytePos |-> 0, bitPos |-> 0]

\* BitReader.readBit
BrReadBit(r) ==
  IF r.bytePos >= Len(r.data)
  THEN [ok |-> FALSE, value |-> 0, r |-> r]
  ELSE [ok |-> TRUE,
        value |-> Bit(r.data[r.bytePos + 1], 7 - r.bitPos),
        r |-> IF r.bitPos + 1 = 8
              THEN [r EXCEPT !.bitPos = 0, !.bytePos = @ + 1]
              ELSE [r EXCEPT !.bitPos = @ + 1]]

\* BitReader.readBits for count <= 31, from the result so far
RECURSIVE BrReadBits(_, _, _)
BrReadBits(r, count, result) ==
  IF count <= 0 THEN [ok |-> TRUE, value |-> result, r |-> r]
  ELSE Only({IF ~b.ok THEN b
             ELSE BrReadBits(b.r, count - 1, result * 2 + b.value) :
               b \in {BrReadBit(r)}})

\* BitReader.readUnary, from the count so far: 'Invalid unary code' once
\* the count passes 32
RECURSIVE BrReadUnary(_, _)
BrReadUnary(r, count) ==
  Only({IF ~b.ok THEN b
        ELSE IF b.value # 0 THEN [ok |-> TRUE, value |-> count, r |-> b.r]
        ELSE IF count + 1 > 32 THEN [ok |-> FALSE, value |-> 0, r |-> b.r]
        ELSE BrReadUnary(b.r, count + 1) :
          b \in {BrReadBit(r)}})

\* BitReader.readRice: (value >> 1) ^ -(value & 1)
BrReadRice(r, param) ==
  LET quotient == BrReadUnary(r, 0)
      remainder == BrReadBits(quotient.r, param, 0)
      value == quotient.value * (2 ^ param) + remainder.value
  IN IF ~quotient.ok THEN quotient
     ELSE IF ~remainder.ok THEN remainder
     ELSE [ok |-> TRUE,
           value |-> IF value % 2 = 0 THEN value \div 2 ELSE -(value \div 2) - 1,
           r |-> remainder.r]

\* the BitWriter, what was asked of it, and what a BitReader made of it
NewBits ==
  [w |-> NewBitWriter, calls |-> 0, written |-> 0, gets |-> 0,
   returned |-> <<>>,
   rice |-> [set |-> FALSE, value |-> 0, param |-> 0],
   read |-> [kind |-> "none", value |-> 0]]

(***************************************************************************)
(* Input: its fields, the demuxers it created, and the accessor calls      *)
(***************************************************************************)
NewInput ==
  [hasFormat |-> FALSE, initialized |-> FALSE, demuxer |-> 0,
   demuxers |-> <<>>, calls |-> <<>>]

InitExt ==
  /\ auto = NewAutoWavMuxer
  /\ bits = NewBits
  /\ inp = NewInput

InitLib ==
  /\ conv = NewConversion
  /\ rdr = NewReader
  /\ wtr = NewWriter
  /\ registry = NewRegistry
  /\ InitExt

(***************************************************************************)
(* AsyncMutex                                                              *)
(***************************************************************************)
\* an acquire() that never suspends its caller
acquireNoWait(lk, q, t) == [locked |-> TRUE, queue |-> q, granted |-> TRUE]

\* acquire() as called by task t: takes the lock if free, else queues the
\* resolver.  granted tells whether the returned promise is already resolved.
acquire(lk, q, t) ==
  IF ~lk THEN [locked |-> TRUE, queue |-> q, granted |-> TRUE]
  ELSE [locked |-> lk, queue |-> Append(q, t), granted |-> FALSE]

\* a release() that pops the newest resolver instead of shifting the oldest
releaseLast(lk, q) ==
  IF Len(q) > 0
  THEN [locked |-> lk, queue |-> SubSeq(q, 1, Len(q) - 1), next |-> q[Len(q)]]
  ELSE [locked |-> FALSE, queue |-> q, next |-> 0]

\* release(): hands the lock to the first queued resolver (locked stays
\* true), or unlocks.  next is the task whose promise gets resolved, 0 if none.
release(lk, q) ==
  IF Len(q) > 0 THEN [locked |-> lk, queue |-> Tail(q), next |-> Head(q)]
  ELSE [locked |-> FALSE, queue |-> q, next |-> 0]

\* a withLock without the finally block: the lock is released on success only
releasesOnSuccessOnly(result) == result = "ok"

\* withLock: try { return await fn() } finally { this.release() }
\* the lock is released whatever the outcome of fn
withLockReleases(result) == result \in {"ok", "error"}

(***************************************************************************)
(* Muxer                                                                   *)
(***************************************************************************)
\* Payloads handed to writePacket: the k-th call made carries a payload that
\* names it, so that the order of the writes shows in the bytes written.
PacketData(k) == {<<k>>}
\* track ids handed to writePacket: the first id addAudioTrack returns and an
\* id it never returns
TrackIds == {1, MaxTracks + 1}

\* a lookup that accepts any id as soon as some track exists
findAnyTrack(trks, trackId) == Len(trks) > 0

\* this.tracks.find(t => t.id === trackId)
findTrack(trks, trackId) == \E i \in 1..Len(trks) : trks[i] = trackId

\* a finalize without the "already finalized" check
neverRejects(fin) == FALSE

\* if (this.finalized) throw new Error('Muxer already finalized')
finalizeRejects(fin) == fin

\* a body that forgets to set the flag
keepHeaderFlag(hw) == hw

\* this.headerWritten = true, after await this.writeHeader()
markHeaderWritten(hw) == TRUE

Init ==
  /\ fmt \in Formats
  /\ locked = FALSE
  /\ queue = <<>>
  /\ tracks = <<>>
  /\ nextTrackId = 1
  /\ headerWritten = FALSE
  /\ finalized = FALSE
  /\ cfg = InitialFields(fmt)
  /\ packets = <<>>
  /\ out = <<>>
  /\ tasks = <<>>
  /\ hist = [headerCalls |-> 0, trailerCalls |-> 0, enterLog |-> <<>>,
             headerBy |-> 0, finalBy |-> 0, finalCfg |-> InitialFields(fmt),
             outAtFinal |-> <<>>]
  /\ source = <<>>
  /\ dmx = NewDemuxer
  /\ readLog = <<>>
  /\ InitLib

\* addAudioTrack(config): synchronous, not serialized by the mutex
addAudioTrack(config) ==
  /\ nextTrackId <= MaxTracks
  /\ tracks' = Append(tracks, nextTrackId)
  /\ nextTrackId' = nextTrackId + 1
  /\ cfg' = onTrackAdded(fmt, cfg, config)
  /\ UNCHANGED <<fmt, extVars, locked, queue, headerWritten, finalized, packets, out,
                 tasks, hist>>
  /\ UNCHANGED <<demuxVars, libVars>>

\* The synchronous prefix of writePacket / finalize: withLock runs up to
\* "await this.acquire()", so acquire() happens at call time.
CallBody(kind, trackId, data) ==
  LET t == Len(tasks) + 1
      a == acquire(locked, queue, t)
  IN /\ locked' = a.locked
     /\ queue' = a.queue
     /\ tasks' = Append(tasks,
          [kind |-> kind, trackId |-> trackId, data |-> data,
           pc |-> IF a.granted THEN "acquired" ELSE "waiting",
           result |-> "pending",
           finalizedAtCall |-> finalized,
           knownAtCall |-> trackId \in {tracks[i] : i \in 1..Len(tracks)},
           knownAtLookup |-> FALSE,
           grantedBy |-> 0])
     /\ UNCHANGED <<headerWritten, finalized, packets, out, hist>>

\* a call made by the program under study, which makes at most MaxCalls
Call(kind, trackId, data) ==
  /\ Len(tasks) < MaxCalls
  /\ CallBody(kind, trackId, data)
  /\ UNCHANGED <<fmt, extVars, tracks, nextTrackId, cfg>>
  /\ UNCHANGED <<demuxVars, libVars>>

writePacket(trackId, data) == Call("write", trackId, data)

finalize == Call("finalize", 0, <<>>)

\* history: was the id among the muxer's tracks
TrackKnown(trackId) == trackId \in {tracks[i] : i \in 1..Len(tracks)}

SetTask(t, pc, result, known) ==
  [tasks EXCEPT ![t].pc = pc, ![t].result = result, ![t].knownAtLookup = known]

\* fn() of writePacket / finalize starts: "if (!this.headerWritten) await
\* this.writeHeader()".  writeHeader pushes its bytes before it yields.
InvokeWriteHeader(t) ==
  /\ out' = out \o writeHeader(fmt)
  /\ hist' = [hist EXCEPT !.headerCalls = @ + 1,
                          !.headerBy = IF @ = 0 THEN t ELSE @,
                          !.enterLog = Append(@, t)]
  /\ tasks' = SetTask(t, "header", "pending", FALSE)
  /\ UNCHANGED <<packets, headerWritten, finalized>>

\* track lookup and writeAudioPacket of writePacket; entered says whether
\* this is the first step of fn().  The call fails when the track is not
\* found or when writeAudioPacket throws.
LookupAndWrite(t, entered) ==
  /\ IF findTrack(tracks, tasks[t].trackId) /\ ~conv.writeThrows
     THEN /\ packets' = writeAudioPacket(fmt, cfg, packets, tasks[t].data)
          /\ tasks' = SetTask(t, "body", "ok", TrackKnown(tasks[t].trackId))
     ELSE /\ packets' = packets
          /\ tasks' = SetTask(t, "body", "error", TrackKnown(tasks[t].trackId))
  /\ hist' = IF entered THEN [hist EXCEPT !.enterLog = Append(@, t)] ELSE hist
  /\ UNCHANGED <<out, finalized>>

\* "await this.writeTrailer()" of finalize: the trailer bytes reach the Writer
InvokeWriteTrailer(t, entered) ==
  /\ out' = out \o writeTrailer(fmt, cfg, packets)
  /\ hist' = [hist EXCEPT !.trailerCalls = @ + 1,
                          !.finalCfg = cfg,
                          !.enterLog = IF entered THEN Append(@, t) ELSE @]
  /\ tasks' = SetTask(t, "trailer", "pending", FALSE)
  /\ UNCHANGED <<packets, finalized>>

\* withLock resumes after "await this.acquire()" and runs the writePacket body
enterWritePacket(t) ==
  /\ tasks[t].pc = "acquired"
  /\ tasks[t].kind = "write"
  /\ IF ~headerWritten THEN InvokeWriteHeader(t) ELSE LookupAndWrite(t, TRUE)
  /\ UNCHANGED <<fmt, extVars, locked, queue, tracks, nextTrackId, headerWritten, cfg>>
  /\ UNCHANGED <<demuxVars, libVars>>

\* withLock resumes after "await this.acquire()" and runs the finalize body
enterFinalize(t) ==
  /\ tasks[t].pc = "acquired"
  /\ tasks[t].kind = "finalize"
  /\ IF finalizeRejects(finalized)
     THEN /\ tasks' = SetTask(t, "body", "error", FALSE)
          /\ hist' = [hist EXCEPT !.enterLog = Append(@, t)]
          /\ UNCHANGED <<out, packets, finalized>>
     ELSE IF ~headerWritten THEN InvokeWriteHeader(t)
          ELSE InvokeWriteTrailer(t, TRUE)
  /\ UNCHANGED <<fmt, extVars, locked, queue, tracks, nextTrackId, headerWritten, cfg>>
  /\ UNCHANGED <<demuxVars, libVars>>

\* the body resumes after "await this.writeHeader()"
afterWriteHeader(t) ==
  /\ tasks[t].pc = "header"
  /\ headerWritten' = markHeaderWritten(headerWritten)
  /\ IF tasks[t].kind = "write" THEN LookupAndWrite(t, FALSE)
     ELSE InvokeWriteTrailer(t, FALSE)
  /\ UNCHANGED <<fmt, extVars, locked, queue, tracks, nextTrackId, cfg>>
  /\ UNCHANGED <<demuxVars, libVars>>

\* finalize resumes after "await this.writeTrailer()": this.finalized = true;
\* return this.writer.close()
afterWriteTrailer(t) ==
  /\ tasks[t].pc = "trailer"
  /\ finalized' = TRUE
  /\ tasks' = SetTask(t, "body", "ok", FALSE)
  /\ hist' = [hist EXCEPT !.finalBy = t, !.outAtFinal = out]
  /\ UNCHANGED <<fmt, extVars, locked, queue, tracks, nextTrackId, headerWritten, cfg,
                 packets, out>>
  /\ UNCHANGED <<demuxVars, libVars>>

\* the finally block of withLock; the call's promise settles
releaseLock(t) ==
  /\ tasks[t].pc = "body"
  /\ IF withLockReleases(tasks[t].result)
     THEN LET r == release(locked, queue)
          IN /\ locked' = r.locked
             /\ queue' = r.queue
             /\ tasks' = [i \in 1..Len(tasks) |->
                  IF i = t THEN [tasks[i] EXCEPT !.pc = "done"]
                  ELSE IF i = r.next
                       THEN [tasks[i] EXCEPT !.pc = "acquired", !.grantedBy = t]
                       ELSE tasks[i]]
     ELSE /\ tasks' = [tasks EXCEPT ![t].pc = "done"]
          /\ UNCHANGED <<locked, queue>>
  /\ UNCHANGED <<fmt, extVars, tracks, nextTrackId, headerWritten, finalized, cfg,
                 packets, out, hist>>
  /\ UNCHANGED <<demuxVars, libVars>>

TaskStep ==
  \E t \in 1..Len(tasks) :
    \/ enterWritePacket(t)
    \/ enterFinalize(t)
    \/ afterWriteHeader(t)
    \/ afterWriteTrailer(t)
    \/ releaseLock(t)

Next ==
  \/ \E config \in {DefaultConfig(fmt)} : addAudioTrack(config)
  \/ \E trackId \in TrackIds, data \in PacketData(Len(tasks) + 1) :
       writePacket(trackId, data)
  \/ finalize
  \/ \E t \in 1..Len(tasks) : enterWritePacket(t)
  \/ \E t \in 1..Len(tasks) : enterFinalize(t)
  \/ \E t \in 1..Len(tasks) : afterWriteHeader(t)
  \/ \E t \in 1..Len(tasks) : afterWriteTrailer(t)
  \/ \E t \in 1..Len(tasks) : releaseLock(t)

Spec == Init /\ [][Next]_vars

\* The event loop runs every continuation whose promise has settled; the
\* caller is free to stop making calls.
FairSpec == Spec /\ WF_vars(TaskStep)

RECURSIVE SumSeq(_)
SumSeq(data) == IF Len(data) = 0 THEN 0 ELSE Head(data) + SumSeq(Tail(data))

\* what readPacket resolves to
NullPacket == [kind |-> "null", data |-> <<>>, timestamp |-> TsZero]
Packet(data, timestamp) == [kind |-> "packet", data |-> data, timestamp |-> timestamp]

(***************************************************************************)
(* OGG demuxer                                                             *)
(***************************************************************************)
\* parseOggPage(data, 0); the fields no demuxer code reads are left out
parseOggPage(data) ==
  IF 27 > Len(data) \/ Subarray(data, 0, 4) # S_OggS
       \/ 27 + At(data, 26) > Len(data)
       \/ 27 + At(data, 26) + SumSeq(Subarray(data, 27, 27 + At(data, 26))) > Len(data)
  THEN [found |-> FALSE]
  ELSE LET segmentCount == At(data, 26)
           segmentTable == Subarray(data, 27, 27 + segmentCount)
           dataStart == 27 + segmentCount
       IN [found |-> TRUE,
           headerType |-> At(data, 5),
           granulePosition |-> getBigInt64LE(data, 6),
           serialNumber |-> Subarray(data, 14, 18),
           segmentTable |-> segmentTable,
           data |-> Subarray(data, dataStart, dataStart + SumSeq(segmentTable)),
           offset |-> 0]

detectCodec(data) ==
  IF Len(data) >= 8 /\ At(data, 0) = 1 /\ IsText(data, 1, 7, S_vorbis)
       /\ Len(data) >= 30
  THEN [found |-> TRUE, codec |-> "vorbis",
        sampleRate |-> getUint32LE(data, 12), channels |-> At(data, 11)]
  ELSE IF Len(data) >= 8 /\ IsText(data, 0, 8, S_OpusHead) /\ Len(data) >= 12
  THEN [found |-> TRUE, codec |-> "opus", sampleRate |-> 48000,
        channels |-> At(data, 9)]
  ELSE IF Len(data) >= 5 /\ At(data, 0) = 127 /\ IsText(data, 1, 5, S_FLAC)
  THEN [found |-> TRUE, codec |-> "flac", sampleRate |-> 44100, channels |-> 2]
  ELSE [found |-> FALSE]

\* parseVorbisComment(data) !== null: a comment header with a readable
\* vendor string and comment count
parseVorbisComment(data) ==
  LET isVorbis == Len(data) >= 7 /\ At(data, 0) = 3 /\ IsText(data, 1, 7, S_vorbis)
      isOpus == Len(data) >= 8 /\ IsText(data, 0, 8, S_OpusTags)
      rest == IF isVorbis THEN Subarray(data, 7, Len(data))
              ELSE Subarray(data, 8, Len(data))
  IN /\ isVorbis \/ isOpus
     /\ Len(rest) >= 4
     /\ 4 + getUint32LE(rest, 0) <= Len(rest)
     /\ 4 + getUint32LE(rest, 0) + 4 <= Len(rest)

\* one iteration of the while loop of scanPages, or its exit
OggScanPages(src, d) ==
  LET pos == d.position
      headerData == readBytes(src, pos, 27)
  IN IF ~(pos < Len(src) - 27) \/ ~headerData.ok
     THEN [d EXCEPT !.phase = "build"]
     ELSE IF Subarray(headerData.data, 0, 4) # S_OggS
     THEN [d EXCEPT !.position = pos + 1]
     ELSE
       LET segmentCount == At(headerData.data, 26)
           segmentTable == readBytes(src, headerData.position, segmentCount)
           dataSize == SumSeq(segmentTable.data)
           pageData == readBytes(src, segmentTable.position, dataSize)
           page == parseOggPage(headerData.data \o segmentTable.data \o pageData.data)
       IN IF ~segmentTable.ok
          THEN [d EXCEPT !.phase = "build", !.position = headerData.position]
          ELSE IF ~pageData.ok
          THEN [d EXCEPT !.phase = "build", !.position = segmentTable.position]
          ELSE [d EXCEPT !.position = pageData.position,
                         !.frames = IF page.found
                                    THEN Append(@, [page EXCEPT !.offset = pos])
                                    ELSE @]

\* this.streams.get(serialNumber): the index of the stream, 0 if absent
StreamIndex(streams, serialNumber) ==
  IF \E i \in 1..Len(streams) : streams[i].serialNumber = serialNumber
  THEN CHOOSE i \in 1..Len(streams) : streams[i].serialNumber = serialNumber
  ELSE 0

\* the loop over page.segmentTable of buildStreams, from segment i on
RECURSIVE ExtractPackets(_, _, _, _)
ExtractPackets(page, i, offset, stream) ==
  IF i > Len(page.segmentTable) THEN stream
  ELSE LET segmentSize == page.segmentTable[i]
           timestamp == IF Len(stream.packets) > 0
                        THEN Quotient(page.granulePosition, stream.sampleRate)
                        ELSE TsZero
           packet == [data |-> Subarray(page.data, offset, offset + segmentSize),
                      granulePosition |-> page.granulePosition,
                      timestamp |-> timestamp]
       IN IF segmentSize > 0
          THEN ExtractPackets(page, i + 1, offset + segmentSize,
                              [stream EXCEPT !.packets = Append(@, packet)])
          ELSE ExtractPackets(page, i + 1, offset, stream)

\* the body of the loop over this.pages of buildStreams
BuildStreamsPage(streams, page) ==
  LET i == StreamIndex(streams, page.serialNumber)
      codecInfo == detectCodec(page.data)
  IN IF i = 0
     THEN IF codecInfo.found
          THEN Append(streams,
                 [serialNumber |-> page.serialNumber, codec |-> codecInfo.codec,
                  sampleRate |-> codecInfo.sampleRate,
                  channels |-> codecInfo.channels, packets |-> <<>>,
                  codecPrivate |-> page.data, hasVorbisComment |-> FALSE])
          ELSE streams
     ELSE IF ~streams[i].hasVorbisComment /\ parseVorbisComment(page.data)
     THEN [streams EXCEPT ![i].hasVorbisComment = TRUE]
     ELSE IF page.headerType % 2 = 0
     THEN [streams EXCEPT ![i] = ExtractPackets(page, 1, 0, @)]
     ELSE streams

RECURSIVE BuildStreamsFrom(_, _, _)
BuildStreamsFrom(pages, k, streams) ==
  IF k > Len(pages) THEN streams
  ELSE BuildStreamsFrom(pages, k + 1, BuildStreamsPage(streams, pages[k]))

\* buildStreams: the primary stream is the first one of the map
buildStreams(d) ==
  LET streams == BuildStreamsFrom(d.frames, 1, d.streams)
  IN [d EXCEPT !.streams = streams,
               !.primary = IF Len(streams) > 0 THEN 1 ELSE 0,
               !.phase = "track"]

buildTrack(d) ==
  IF d.primary = 0
  THEN [d EXCEPT !.tracks = <<>>, !.duration = TsZero, !.phase = "ready"]
  ELSE LET primaryStream == d.streams[d.primary]
       IN [d EXCEPT
             !.tracks = <<[id |-> 1, codec |-> primaryStream.codec,
                           sampleRate |-> primaryStream.sampleRate,
                           channels |-> primaryStream.channels]>>,
             !.duration = IF Len(primaryStream.packets) > 0
                          THEN primaryStream.packets[Len(primaryStream.packets)].timestamp
                          ELSE TsZero,
             !.phase = "ready"]

OggReadPacket(d, trackId) ==
  IF trackId # 1 \/ d.primary = 0
  THEN [d |-> d, packet |-> NullPacket]
  ELSE IF d.index >= Len(d.streams[d.primary].packets)
  THEN [d |-> d, packet |-> NullPacket]
  ELSE LET packet == d.streams[d.primary].packets[d.index + 1]
       IN [d |-> [d EXCEPT !.index = @ + 1],
           packet |-> Packet(packet.data, packet.timestamp)]

(***************************************************************************)
(* AAC (ADTS) demuxer                                                      *)
(***************************************************************************)
\* parseAdtsHeader(data, 0); the fields the demuxer reads
parseAdtsHeader(data) ==
  IF 7 > Len(data) THEN [found |-> FALSE]
  ELSE IF At(data, 0) # 255 \/ At(data, 1) \div 16 # 15 THEN [found |-> FALSE]
  ELSE
    LET b1 == At(data, 1)
        b2 == At(data, 2)
        b3 == At(data, 3)
        b4 == At(data, 4)
        b5 == At(data, 5)
        layer == (b1 \div 2) % 4
        profile == (b2 \div 64) % 4
        samplingFrequencyIndex == (b2 \div 4) % 16
        channelConfiguration == (b2 % 2) * 4 + ((b3 \div 64) % 4)
        frameLength == (b3 % 4) * 2048 + b4 * 8 + ((b5 \div 32) % 8)
    IN IF layer # 0 \/ samplingFrequencyIndex > 12 \/ frameLength < 7
       THEN [found |-> FALSE]
       ELSE [found |-> TRUE, profile |-> profile,
             samplingFrequencyIndex |-> samplingFrequencyIndex,
             channelConfiguration |-> channelConfiguration,
             frameLength |-> frameLength]

\* scanFrames without "this.reader.position = pos + 1" on a header that
\* does not parse
AacScanStuck(src, d) ==
  LET pos == d.position
      headerBytes == readBytes(src, pos, 9)
      header == parseAdtsHeader(headerBytes.data)
      frameData == readBytes(src, pos, header.frameLength)
      sampleRate == AAC_SAMPLE_RATES[header.samplingFrequencyIndex + 1]
  IN IF ~(pos < Len(src) - 7) \/ ~headerBytes.ok
     THEN [d EXCEPT !.phase = "finish"]
     ELSE IF ~header.found
     THEN d
     ELSE IF ~frameData.ok
     THEN [d EXCEPT !.phase = "finish"]
     ELSE [d EXCEPT !.position = frameData.position,
                    !.frames = Append(@, [header |-> header, data |-> frameData.data,
                                          offset |-> pos, timestamp |-> d.timestamp]),
                    !.timestamp = TsAdd(@, Quotient(1024, sampleRate))]

\* one iteration of the while loop of AacDemuxer.scanFrames, or its exit
AacScanFrames(src, d) ==
  LET pos == d.position
      headerBytes == readBytes(src, pos, 9)
      header == parseAdtsHeader(headerBytes.data)
      frameData == readBytes(src, pos, header.frameLength)
      sampleRate == AAC_SAMPLE_RATES[header.samplingFrequencyIndex + 1]
  IN IF ~(pos < Len(src) - 7) \/ ~headerBytes.ok
     THEN [d EXCEPT !.phase = "finish"]
     ELSE IF ~header.found
     THEN [d EXCEPT !.position = pos + 1]
     ELSE IF ~frameData.ok
     THEN [d EXCEPT !.phase = "finish"]
     ELSE [d EXCEPT !.position = frameData.position,
                    !.frames = Append(@, [header |-> header, data |-> frameData.data,
                                          offset |-> pos, timestamp |-> d.timestamp]),
                    !.timestamp = TsAdd(@, Quotient(1024, sampleRate))]

\* AacDemuxer.init after "await this.scanFrames()"
AacFinishInit(d) ==
  IF Len(d.frames) > 0
  THEN LET firstFrame == d.frames[1]
           lastFrame == d.frames[Len(d.frames)]
           sampleRate == AAC_SAMPLE_RATES[firstFrame.header.samplingFrequencyIndex + 1]
           channels == IF firstFrame.header.channelConfiguration # 0
                       THEN firstFrame.header.channelConfiguration ELSE 2
       IN [d EXCEPT !.tracks = <<[id |-> 1, codec |-> "aac",
                                  sampleRate |-> sampleRate, channels |-> channels]>>,
                    !.duration = TsAdd(lastFrame.timestamp, Quotient(1024, sampleRate)),
                    !.phase = "ready"]
  ELSE [d EXCEPT !.phase = "ready"]

\* readPacket of the AAC, MP3 and FLAC demuxers (the three bodies agree on
\* data and timestamp)
FrameReadPacket(d, trackId) ==
  IF trackId # 1 \/ d.index >= Len(d.frames)
  THEN [d |-> d, packet |-> NullPacket]
  ELSE LET frame == d.frames[d.index + 1]
       IN [d |-> [d EXCEPT !.index = @ + 1],
           packet |-> Packet(frame.data, frame.timestamp)]

(***************************************************************************)
(* MP3 demuxer.  A null table entry is written 0.                          *)
(***************************************************************************)
MPEG_VERSIONS == <<"MPEG2.5", "", "MPEG2", "MPEG1">>
LAYERS == <<"", "Layer3", "Layer2", "Layer1">>

BITRATES(version, layer) ==
  IF version = "MPEG1"
  THEN CASE layer = "Layer1" ->
              <<0, 32, 64, 96, 128, 160, 192, 224, 256, 288, 320, 352, 384, 416, 448, 0>>
         [] layer = "Layer2" ->
              <<0, 32, 48, 56, 64, 80, 96, 112, 128, 160, 192, 224, 256, 320, 384, 0>>
         [] layer = "Layer3" ->
              <<0, 32, 40, 48, 56, 64, 80, 96, 112, 128, 160, 192, 224, 256, 320, 0>>
  ELSE CASE layer = "Layer1" ->
              <<0, 32, 48, 56, 64, 80, 96, 112, 128, 144, 160, 176, 192, 224, 256, 0>>
         [] layer = "Layer2" ->
              <<0, 8, 16, 24, 32, 40, 48, 56, 64, 80, 96, 112, 128, 144, 160, 0>>
         [] layer = "Layer3" ->
              <<0, 8, 16, 24, 32, 40, 48, 56, 64, 80, 96, 112, 128, 144, 160, 0>>

SAMPLE_RATES(version) ==
  CASE version = "MPEG1" -> <<44100, 48000, 32000, 0>>
    [] version = "MPEG2" -> <<22050, 24000, 16000, 0>>
    [] version = "MPEG2.5" -> <<11025, 12000, 8000, 0>>

SAMPLES_PER_FRAME(version, layer) ==
  IF layer = "Layer1" THEN 384
  ELSE IF layer = "Layer2" THEN 1152
  ELSE IF version = "MPEG1" THEN 1152 ELSE 576

\* parseFrameHeader(data, 0)
parseFrameHeader(data) ==
  IF 4 > Len(data) THEN [found |-> FALSE]
  ELSE IF At(data, 0) # 255 \/ At(data, 1) \div 32 # 7 THEN [found |-> FALSE]
  ELSE
    LET h1 == At(data, 1)
        h2 == At(data, 2)
        h3 == At(data, 3)
        version == MPEG_VERSIONS[((h1 \div 8) % 4) + 1]
        layer == LAYERS[((h1 \div 2) % 4) + 1]
        bitrate == BITRATES(version, layer)[((h2 \div 16) % 16) + 1]
        sampleRate == SAMPLE_RATES(version)[((h2 \div 4) % 4) + 1]
        paddingBit == (h2 \div 2) % 2
        channelModeBits == (h3 \div 64) % 4
        slotSize == IF layer = "Layer3" /\ version # "MPEG1" THEN 72 ELSE 144
    IN IF version = "" \/ layer = "" THEN [found |-> FALSE]
       ELSE IF bitrate = 0 \/ sampleRate = 0 THEN [found |-> FALSE]
       ELSE [found |-> TRUE, version |-> version, layer |-> layer,
             sampleRate |-> sampleRate,
             channels |-> IF channelModeBits = 3 THEN 1 ELSE 2,
             samplesPerFrame |-> SAMPLES_PER_FRAME(version, layer),
             frameSize |->
               IF layer = "Layer1"
               THEN (48000 * bitrate) \div sampleRate + 4 * paddingBit
               ELSE (slotSize * 1000 * bitrate) \div sampleRate + paddingBit]

\* Mp3Demuxer.init up to "await this.scanFrames()": the ID3v2 tag at the
\* start and the ID3v1 tag at the end bound the audio data
Mp3StartInit(src, d) ==
  LET fileSize == Len(src)
      headerData == readBytes(src, 0, 10)
      hasId3v2 == /\ headerData.ok
                  /\ SubSeq(headerData.data, 1, 3) = <<73, 68, 51>>
      tagSize == (At(headerData.data, 6) % 128) * 2097152
                   + (At(headerData.data, 7) % 128) * 16384
                   + (At(headerData.data, 8) % 128) * 128
                   + (At(headerData.data, 9) % 128)
      tailData == readBytes(src, fileSize - 128, 128)
      hasId3v1 == /\ fileSize >= 128
                  /\ tailData.ok
                  /\ SubSeq(tailData.data, 1, 3) = <<84, 65, 71>>
      audioDataStart == IF hasId3v2 /\ readBytes(src, 0, 10 + tagSize).ok
                        THEN 10 + tagSize ELSE 0
  IN [d EXCEPT !.initialized = TRUE, !.phase = "scan",
               !.position = audioDataStart, !.timestamp = TsZero,
               !.info = [set |-> TRUE, audioDataStart |-> audioDataStart,
                         audioDataEnd |-> IF hasId3v1 THEN fileSize - 128
                                          ELSE fileSize]]

\* a scan that gives up at the first header that does not parse
Mp3ScanNoResync(src, d) ==
  LET pos == d.position
      headerBytes == readBytes(src, pos, 4)
      header == parseFrameHeader(headerBytes.data)
      frameData == readBytes(src, pos, header.frameSize)
  IN IF ~(pos < d.info.audioDataEnd - 4) \/ ~headerBytes.ok
     THEN [d EXCEPT !.phase = "finish"]
     ELSE IF ~header.found \/ ~frameData.ok
     THEN [d EXCEPT !.phase = "finish"]
     ELSE [d EXCEPT !.position = frameData.position,
                    !.frames = Append(@, [header |-> header, data |-> frameData.data,
                                          offset |-> pos, timestamp |-> d.timestamp]),
                    !.timestamp = TsAdd(@, Quotient(header.samplesPerFrame,
                                                    header.sampleRate))]

\* one iteration of the while loop of Mp3Demuxer.scanFrames, or its exit
Mp3ScanFrames(src, d) ==
  LET pos == d.position
      headerBytes == readBytes(src, pos, 4)
      header == parseFrameHeader(headerBytes.data)
      frameData == readBytes(src, pos, header.frameSize)
  IN IF ~(pos < d.info.audioDataEnd - 4) \/ ~headerBytes.ok
     THEN [d EXCEPT !.phase = "finish"]
     ELSE IF ~header.found
     THEN [d EXCEPT !.position = pos + 1]
     ELSE IF ~frameData.ok
     THEN [d EXCEPT !.phase = "finish"]
     ELSE [d EXCEPT !.position = frameData.position,
                    !.frames = Append(@, [header |-> header, data |-> frameData.data,
                                          offset |-> pos, timestamp |-> d.timestamp]),
                    !.timestamp = TsAdd(@, Quotient(header.samplesPerFrame,
                                                    header.sampleRate))]

\* Mp3Demuxer.init after "await this.scanFrames()"
Mp3FinishInit(d) ==
  IF Len(d.frames) > 0
  THEN LET firstFrame == d.frames[1]
           lastFrame == d.frames[Len(d.frames)]
       IN [d EXCEPT !.tracks = <<[id |-> 1, codec |-> "mp3",
                                  sampleRate |-> firstFrame.header.sampleRate,
                                  channels |-> firstFrame.header.channels]>>,
                    !.duration = TsAdd(lastFrame.timestamp,
                                       Quotient(lastFrame.header.samplesPerFrame,
                                                lastFrame.header.sampleRate)),
                    !.phase = "ready"]
  ELSE [d EXCEPT !.phase = "ready"]

(***************************************************************************)
(* WAV demuxer.  A field the Reader could not supply is null, written -1;  *)
(* in arithmetic null counts as 0.  Magic numbers are compared as bytes.   *)
(***************************************************************************)
S_RF64 == <<82, 70, 54, 52>>
S_ds64 == <<100, 115, 54, 52>>
S_LIST == <<76, 73, 83, 84>>
S_INFO == <<73, 78, 70, 79>>
RF64_SIZE_PLACEHOLDER == <<255, 255, 255, 255>>
WAVE_FORMAT_ALAW == 6
WAVE_FORMAT_MULAW == 7
WAVE_FORMAT_EXTENSIBLE == 65534

Null == -1
Num(x) == IF x = Null THEN 0 ELSE x

\* the fields of a WavDemuxer before any chunk was seen
NoWavInfo ==
  [set |-> TRUE, isRf64 |-> FALSE, dataSize |-> 0, endPosition |-> 0,
   hasFormat |-> FALSE,
   format |-> [formatCode |-> Null, channels |-> Null, sampleRate |-> Null,
               bitsPerSample |-> Null],
   hasDataChunk |-> FALSE, dataChunk |-> [size |-> 0, offset |-> 0]]

\* the value of a readU16LE / readU32LE whose bytes are r
U16LEOf(r) == IF r.ok THEN getUint16LE(r.data, 0) ELSE Null
U32LEOf(r) == IF r.ok THEN getUint32LE(r.data, 0) ELSE Null

formatCodeToCodec(code) ==
  IF code = WAVE_FORMAT_ALAW THEN "alaw"
  ELSE IF code = WAVE_FORMAT_MULAW THEN "ulaw"
  ELSE "pcm"

\* parseFmtChunk(size) with the reader at pos: the format and the position
\* the reader is left at
parseFmtChunk(src, pos, size) ==
  LET formatCode == readBytes(src, pos, 2)
      channels == readBytes(src, formatCode.position, 2)
      sampleRate == readBytes(src, channels.position, 4)
      byteRate == readBytes(src, sampleRate.position, 4)
      blockAlign == readBytes(src, byteRate.position, 2)
      bitsPerSample == readBytes(src, blockAlign.position, 2)
      extSize == readBytes(src, bitsPerSample.position, 2)
      validBitsPerSample == readBytes(src, extSize.position, 2)
      channelMask == readBytes(src, validBitsPerSample.position, 4)
      subFormat == readBytes(src, channelMask.position, 16)
  IN [format |-> [formatCode |-> U16LEOf(formatCode),
                  channels |-> U16LEOf(channels),
                  sampleRate |-> U32LEOf(sampleRate),
                  bitsPerSample |-> U16LEOf(bitsPerSample)],
      position |->
        IF size > 16
        THEN IF U16LEOf(extSize) >= 22
                  /\ U16LEOf(formatCode) = WAVE_FORMAT_EXTENSIBLE
             THEN subFormat.position
             ELSE extSize.position
        ELSE bitsPerSample.position]

\* the position parseInfoChunk leaves the reader at, started at pos
RECURSIVE parseInfoChunk(_, _, _)
parseInfoChunk(src, pos, endPos) ==
  LET tagId == readBytes(src, pos, 4)
      tagSize == readBytes(src, tagId.position, 4)
      tagData == readBytes(src, tagSize.position, U32LEOf(tagSize))
  IN IF ~(pos < endPos - 8) THEN pos
     ELSE IF ~tagId.ok \/ ~tagSize.ok THEN tagSize.position
     ELSE parseInfoChunk(src, tagData.position + (U32LEOf(tagSize) % 2), endPos)

\* WavDemuxer.init up to the chunk loop: RIFF / RF64 header and, for RF64,
\* the ds64 chunk
WavStartInit(src, d) ==
  LET riffMagic == readBytes(src, 0, 4)
      isRf64 == riffMagic.ok /\ riffMagic.data = S_RF64
      fileSize == readBytes(src, riffMagic.position, 4)
      waveMagic == readBytes(src, fileSize.position, 4)
      ds64Id == readBytes(src, waveMagic.position, 4)
      ds64Size == readBytes(src, ds64Id.position, 4)
      riffSizeLow == readBytes(src, ds64Size.position, 4)
      riffSizeHigh == readBytes(src, riffSizeLow.position, 4)
      dataSizeLow == readBytes(src, riffSizeHigh.position, 4)
      dataSizeHigh == readBytes(src, dataSizeLow.position, 4)
      sampleCountLow == readBytes(src, dataSizeHigh.position, 4)
      sampleCountHigh == readBytes(src, sampleCountLow.position, 4)
      tableLength == readBytes(src, sampleCountHigh.position, 4)
      riffSize == IF U32LEOf(riffSizeHigh) = 0 THEN U32LEOf(riffSizeLow)
                  ELSE U32LEOf(riffSizeLow) + 65536 * 65536 * U32LEOf(riffSizeHigh)
      dataSize == IF U32LEOf(dataSizeHigh) = 0 THEN U32LEOf(dataSizeLow)
                  ELSE U32LEOf(dataSizeLow) + 65536 * 65536 * U32LEOf(dataSizeHigh)
      afterDs64 == IF U32LEOf(ds64Size) > 28 /\ U32LEOf(tableLength) > 0
                   THEN tableLength.position + (U32LEOf(ds64Size) - 28)
                   ELSE tableLength.position
      started == [d EXCEPT !.initialized = TRUE]
      failed == [started EXCEPT !.phase = "failed"]
  IN IF ~isRf64 /\ ~(riffMagic.ok /\ riffMagic.data = S_RIFF) THEN failed
     ELSE IF ~(waveMagic.ok /\ waveMagic.data = S_WAVE) THEN failed
     ELSE IF ~isRf64
     THEN [started EXCEPT
             !.phase = "scan", !.position = waveMagic.position,
             !.info = [NoWavInfo EXCEPT !.endPosition = 8 + U32LEOf(fileSize)]]
     ELSE IF ~(ds64Id.ok /\ ds64Id.data = S_ds64 /\ ds64Size.ok) THEN failed
     \* BigInt(null) throws
     ELSE IF ~sampleCountHigh.ok THEN failed
     ELSE [started EXCEPT
             !.phase = "scan", !.position = afterDs64,
             !.info = [NoWavInfo EXCEPT !.isRf64 = TRUE, !.dataSize = dataSize,
                                        !.endPosition = riffSize + 8]]

\* one iteration of the chunk loop of WavDemuxer.init, or its exit
WavScanChunk(src, d) ==
  LET chunkId == readBytes(src, d.position, 4)
      sizeBytes == readBytes(src, chunkId.position, 4)
      chunkSize == IF d.info.isRf64 /\ sizeBytes.data = RF64_SIZE_PLACEHOLDER
                        /\ chunkId.data = S_data
                   THEN d.info.dataSize
                   ELSE U32LEOf(sizeBytes)
      chunkOffset == sizeBytes.position
      fmtChunk == parseFmtChunk(src, chunkOffset, chunkSize)
      listType == readBytes(src, chunkOffset, 4)
      position == IF chunkId.data = S_fmt THEN fmtChunk.position
                  ELSE IF chunkId.data = S_LIST
                  THEN IF listType.ok /\ listType.data = S_INFO
                       THEN parseInfoChunk(src, listType.position,
                                           listType.position + chunkSize - 4)
                       ELSE listType.position
                  ELSE chunkOffset
      nextPos == chunkOffset + chunkSize + (chunkSize % 2)
      moved == [d EXCEPT !.position = IF nextPos > position THEN nextPos
                                      ELSE position]
  IN IF ~(d.position < d.info.endPosition)
     THEN [d EXCEPT !.phase = "finish"]
     ELSE IF ~chunkId.ok \/ ~sizeBytes.ok
     THEN [d EXCEPT !.phase = "finish", !.position = sizeBytes.position]
     ELSE IF chunkId.data = S_fmt
     THEN [moved EXCEPT !.info = [@ EXCEPT !.hasFormat = TRUE,
                                           !.format = fmtChunk.format]]
     ELSE IF chunkId.data = S_data
     THEN [moved EXCEPT !.info = [@ EXCEPT !.hasDataChunk = TRUE,
                                           !.dataChunk = [size |-> chunkSize,
                                                          offset |-> chunkOffset]]]
     ELSE moved

\* WavDemuxer.init after the chunk loop
WavFinishInit(d) ==
  IF ~d.info.hasFormat \/ ~d.info.hasDataChunk
  THEN [d EXCEPT !.phase = "failed"]
  ELSE LET format == d.info.format
           dataChunk == d.info.dataChunk
           \* bytesPerSample * channels, in eighths of a byte
           frameBits == Num(format.bitsPerSample) * Num(format.channels)
       IN [d EXCEPT
             !.tracks = <<[id |-> 1, codec |-> formatCodeToCodec(format.formatCode),
                           sampleRate |-> format.sampleRate,
                           channels |-> format.channels,
                           bitDepth |-> format.bitsPerSample]>>,
             !.duration = Quotient(8 * dataChunk.size,
                                   frameBits * Num(format.sampleRate)),
             !.index = dataChunk.offset,
             !.phase = "ready"]

\* WavDemuxer.readPacket.  bytesToRead is a whole number of sample frames;
\* when a frame is not a whole number of bytes the Reader is asked for a
\* fractional length, which it checks as it is and truncates when slicing.
WavReadPacket(src, d, trackId) ==
  IF trackId # 1 \/ ~d.info.set THEN [d |-> d, packet |-> NullPacket]
  ELSE IF ~d.info.hasFormat \/ ~d.info.hasDataChunk
  THEN [d |-> d, packet |-> NullPacket]
  ELSE
    LET format == d.info.format
        dataChunk == d.info.dataChunk
        remaining == dataChunk.size - (d.index - dataChunk.offset)
        frameBits == Num(format.bitsPerSample) * Num(format.channels)
        samplesToRead == IF frameBits = 0 THEN 4096
                         ELSE IF (8 * remaining) \div frameBits > 4096 THEN 4096
                         ELSE (8 * remaining) \div frameBits
        bitsToRead == samplesToRead * frameBits
        length == bitsToRead \div 8
        inside == bitsToRead = 0 \/ d.index + ((bitsToRead + 7) \div 8) <= Len(src)
        data == Subarray(src, d.index, d.index + length)
    IN IF remaining <= 0 THEN [d |-> d, packet |-> NullPacket]
       ELSE IF ~inside \/ length = 0
       THEN [d |-> [d EXCEPT !.position = d.index], packet |-> NullPacket]
       ELSE [d |-> [d EXCEPT !.position = d.index + length,
                             !.index = @ + length,
                             !.samplesRead = TsAdd(@, Quotient(8 * length, frameBits))],
             packet |-> Packet(data,
                               Quotient(d.samplesRead.num,
                                        d.samplesRead.den * Num(format.sampleRate)))]

(***************************************************************************)
(* FLAC demuxer.  Reading a typed array past its end gives undefined,      *)
(* which the bit operators take as 0; a DataView read past the end throws. *)
(***************************************************************************)
BLOCK_VORBIS_COMMENT == 4
BLOCK_PICTURE == 6

\* data[i] inside a bit operation
ByteOrZero(data, i) == IF i < Len(data) THEN At(data, i) ELSE 0

getUint32BE(data, o) ==
  16777216 * At(data, o) + 65536 * At(data, o + 1) + 256 * At(data, o + 2)
    + At(data, o + 3)

\* parseStreamInfo(data); needs the four bytes its DataView reads
parseStreamInfo(data) ==
  LET d10 == ByteOrZero(data, 10)
      d11 == ByteOrZero(data, 11)
      d12 == ByteOrZero(data, 12)
      d13 == ByteOrZero(data, 13)
      \* ((data[12] & 0x01) << 4) | (data[13] >> 4) + 1: "+" binds first
      high == (d12 % 2) * 16
      low == (d13 \div 16) + 1
      totalSamplesLow == 16777216 * ByteOrZero(data, 14) + 65536 * ByteOrZero(data, 15)
                           + 256 * ByteOrZero(data, 16) + ByteOrZero(data, 17)
  IN [minBlockSize |-> getUint16BE(data, 0),
      maxBlockSize |-> getUint16BE(data, 2),
      sampleRate |-> d10 * 4096 + d11 * 16 + (d12 \div 16),
      channels |-> ((d12 \div 2) % 8) + 1,
      bitsPerSample |-> IF high = 0 THEN low
                        ELSE IF low = 16 THEN 16 ELSE 16 + low,
      totalSamples |-> IF d13 % 16 = 0 THEN totalSamplesLow
                       ELSE 65536 * 65536 * (d13 % 16) + totalSamplesLow]

\* does the loop over the comments of parseVorbisComment (FLAC) read past
\* the end of the block
RECURSIVE CommentsThrow(_, _, _)
CommentsThrow(data, pos, n) ==
  IF n = 0 THEN FALSE
  ELSE IF pos + 4 > Len(data) THEN TRUE
  ELSE CommentsThrow(data, pos + 4 + getUint32LE(data, pos), n - 1)

VorbisCommentThrows(data) ==
  \/ 4 > Len(data)
  \/ 4 + getUint32LE(data, 0) + 4 > Len(data)
  \/ CommentsThrow(data, 4 + getUint32LE(data, 0) + 4,
                   getUint32LE(data, 4 + getUint32LE(data, 0)))

\* does parsePicture read past the end of the block
PictureThrows(data) ==
  \/ 8 > Len(data)
  \/ 8 + getUint32BE(data, 4) + 4 > Len(data)
  \/ 8 + getUint32BE(data, 4) + 4
       + getUint32BE(data, 8 + getUint32BE(data, 4)) + 20 > Len(data)

\* FlacDemuxer.init up to the metadata loop
FlacStartInit(src, d) ==
  LET magic == readBytes(src, 0, 4)
  IN IF magic.ok /\ magic.data = S_fLaC
     THEN [d EXCEPT !.initialized = TRUE, !.phase = "meta",
                    !.position = magic.position,
                    !.info = [set |-> TRUE, isLast |-> FALSE,
                              hasStreamInfo |-> FALSE,
                              streamInfo |-> parseStreamInfo(Zeros(4)),
                              audioDataStart |-> 0]]
     ELSE [d EXCEPT !.initialized = TRUE, !.phase = "failed"]

\* the end of the metadata loop: audioDataStart, the STREAMINFO check and
\* the start of scanFrames
FlacEndMetadata(d) ==
  IF ~d.info.hasStreamInfo
  THEN [d EXCEPT !.phase = "failed", !.info.audioDataStart = d.position]
  ELSE [d EXCEPT !.phase = "scan", !.info.audioDataStart = d.position,
                 !.sampleNumber = 0]

\* one iteration of the metadata loop of FlacDemuxer.init, or its exit
FlacReadBlock(src, d) ==
  LET header == readBytes(src, d.position, 1)
      isLast == At(header.data, 0) >= 128
      blockType == At(header.data, 0) % 128
      length == readBytes(src, header.position, 3)
      size == 65536 * At(length.data, 0) + 256 * At(length.data, 1) + At(length.data, 2)
      data == readBytes(src, length.position, size)
      read == [d EXCEPT !.position = data.position, !.info.isLast = isLast]
  IN IF d.info.isLast THEN FlacEndMetadata(d)
     ELSE IF ~header.ok THEN FlacEndMetadata(d)
     ELSE IF ~length.ok
     THEN FlacEndMetadata([d EXCEPT !.position = header.position,
                                    !.info.isLast = isLast])
     ELSE IF ~data.ok
     THEN FlacEndMetadata([d EXCEPT !.position = length.position,
                                    !.info.isLast = isLast])
     ELSE IF blockType = BLOCK_STREAMINFO
     THEN IF 4 > Len(data.data) THEN [read EXCEPT !.phase = "failed"]
          ELSE [read EXCEPT !.info.hasStreamInfo = TRUE,
                            !.info.streamInfo = parseStreamInfo(data.data)]
     ELSE IF blockType = BLOCK_VORBIS_COMMENT /\ VorbisCommentThrows(data.data)
     THEN [read EXCEPT !.phase = "failed"]
     ELSE IF blockType = BLOCK_PICTURE /\ PictureThrows(data.data)
     THEN [read EXCEPT !.phase = "failed"]
     ELSE read

\* ((b0 << 8) | b1) >> 2 === FRAME_SYNC
IsFrameSync(bytes) == At(bytes, 0) = 255 /\ At(bytes, 1) \div 4 = 62

\* the inner loop of scanFrames from position p on: the offset of the next
\* sync code, or fileSize
RECURSIVE FindFrameEnd(_, _)
FindFrameEnd(src, p) ==
  IF ~(p < Len(src) - 2) THEN Len(src)
  ELSE IF IsFrameSync(readBytes(src, p, 2).data) THEN p
  ELSE FindFrameEnd(src, p + 1)

FlacBlockSize(blockSizeCode) ==
  IF blockSizeCode = 1 THEN 192
  ELSE IF blockSizeCode \in 2..5 THEN 576 * (2 ^ (blockSizeCode - 2))
  ELSE IF blockSizeCode \in {0, 6, 7} THEN 0
  ELSE 256 * (2 ^ (blockSizeCode - 8))

\* one iteration of the outer while loop of FlacDemuxer.scanFrames, or its
\* exit
FlacScanFrames(src, d) ==
  LET pos == d.position
      fileSize == Len(src)
      syncBytes == readBytes(src, pos, 2)
      headerBytes == readBytes(src, pos, 16)
      parsed == FlacBlockSize((At(headerBytes.data, 2) \div 16) % 16)
      blockSize == IF parsed # 0 THEN parsed ELSE d.info.streamInfo.maxBlockSize
      frameEnd == FindFrameEnd(src, pos + 16)
      frameData == readBytes(src, pos, frameEnd - pos)
  IN IF ~(pos < fileSize - 2) \/ ~syncBytes.ok
     THEN [d EXCEPT !.phase = "finish"]
     ELSE IF ~IsFrameSync(syncBytes.data)
     THEN [d EXCEPT !.position = pos + 1]
     ELSE IF ~headerBytes.ok
     THEN [d EXCEPT !.phase = "finish", !.position = pos]
     ELSE IF ~frameData.ok
     THEN [d EXCEPT !.phase = "finish", !.position = pos]
     ELSE [d EXCEPT
             !.position = frameEnd,
             !.frames = Append(@, [data |-> frameData.data, offset |-> pos,
                                   blockSize |-> blockSize,
                                   timestamp |-> Quotient(d.sampleNumber,
                                                          d.info.streamInfo.sampleRate)]),
             !.sampleNumber = @ + blockSize]

\* FlacDemuxer.init after "await this.scanFrames()"
FlacFinishInit(d) ==
  [d EXCEPT !.tracks = <<[id |-> 1, codec |-> "flac",
                          sampleRate |-> d.info.streamInfo.sampleRate,
                          channels |-> d.info.streamInfo.channels,
                          bitDepth |-> d.info.streamInfo.bitsPerSample]>>,
            !.duration = Quotient(d.info.streamInfo.totalSamples,
                                  d.info.streamInfo.sampleRate),
            !.phase = "ready"]

(***************************************************************************)
(* The demuxer under study: init() split at the iterations of its loops,   *)
(* and readPacket.                                                         *)
(***************************************************************************)
\* init() from the call to the first loop
StartInit(f, src, d) ==
  CASE f = "mp3"  -> Mp3StartInit(src, d)
    [] f = "wav"  -> WavStartInit(src, d)
    [] f = "flac" -> FlacStartInit(src, d)
    [] OTHER      -> [d EXCEPT !.initialized = TRUE, !.phase = "scan",
                               !.position = 0, !.timestamp = TsZero]

\* one iteration of the loop init() is in
ScanStep(f, src, d) ==
  CASE f = "mp3"  -> Mp3ScanFrames(src, d)
    [] f = "wav"  -> WavScanChunk(src, d)
    [] f = "flac" -> IF d.phase = "meta" THEN FlacReadBlock(src, d)
                     ELSE FlacScanFrames(src, d)
    [] f = "aac"  -> AacScanFrames(src, d)
    [] f = "ogg"  -> OggScanPages(src, d)

\* init() after its loops
FinishInit(f, d) ==
  CASE f = "mp3"  -> Mp3FinishInit(d)
    [] f = "wav"  -> WavFinishInit(d)
    [] f = "flac" -> FlacFinishInit(d)
    [] f = "aac"  -> AacFinishInit(d)
    [] f = "ogg"  -> IF d.phase = "build" THEN buildStreams(d) ELSE buildTrack(d)

ReadPacket(f, src, d, trackId) ==
  CASE f = "wav" -> WavReadPacket(src, d, trackId)
    [] f = "ogg" -> OggReadPacket(d, trackId)
    [] OTHER     -> FrameReadPacket(d, trackId)

\* demuxer.init(), called once
init ==
  /\ dmx.phase = "new"
  /\ dmx' = StartInit(fmt, source, dmx)
  /\ UNCHANGED <<fmt, extVars, source, readLog>>
  /\ UNCHANGED <<muxVars, libVars>>

scanStep ==
  /\ dmx.phase \in {"scan", "meta"}
  /\ dmx' = ScanStep(fmt, source, dmx)
  /\ UNCHANGED <<fmt, extVars, source, readLog>>
  /\ UNCHANGED <<muxVars, libVars>>

finishInit ==
  /\ dmx.phase \in {"build", "track", "finish"}
  /\ dmx' = FinishInit(fmt, dmx)
  /\ UNCHANGED <<fmt, extVars, source, readLog>>
  /\ UNCHANGED <<muxVars, libVars>>

\* demuxer.readPacket(trackId); the log keeps what the call resolved to,
\* the phase init() was in and whether the id was among demuxer.tracks
LogEntry(trackId, d, packet) ==
  [trackId |-> trackId,
   produced |-> \E i \in 1..Len(d.tracks) : d.tracks[i].id = trackId,
   phase |-> d.phase,
   kind |-> packet.kind,
   data |-> packet.data,
   timestamp |-> packet.timestamp]

readPacket(trackId) ==
  /\ Len(readLog) < MaxReads
  /\ LET r == ReadPacket(fmt, source, dmx, trackId)
     IN /\ dmx' = r.d
        /\ readLog' = Append(readLog, LogEntry(trackId, dmx, r.packet))
  /\ UNCHANGED <<fmt, extVars, source>>
  /\ UNCHANGED <<muxVars, libVars>>

(***************************************************************************)
(* seek(timeInSeconds) of the demuxers                                     *)
(***************************************************************************)
\* the loop of seek: the first i (counted from 1) with
\* frames[i].timestamp >= timeInSeconds, 0 when the loop runs to its end
FirstAtOrAfter(frames, timeInSeconds) ==
  LET hits == {i \in 1..Len(frames) : TsLeq(timeInSeconds, frames[i].timestamp)}
  IN IF hits = {} THEN 0 ELSE CHOOSE i \in hits : \A j \in hits : i <= j

\* a seek that lands on the matching frame itself
SeekIndexExact(frames, timeInSeconds) ==
  LET i == FirstAtOrAfter(frames, timeInSeconds)
  IN IF i = 0 THEN Len(frames) ELSE i - 1

\* the cursor seek leaves: Math.max(0, i - 1) for the loop index i (counted
\* from 0), frames.length when no frame matched
SeekIndex(frames, timeInSeconds) ==
  LET i == FirstAtOrAfter(frames, timeInSeconds)
  IN IF i = 0 THEN Len(frames) ELSE IF i - 2 > 0 THEN i - 2 ELSE 0

\* Mp3Demuxer.seek, AacDemuxer.seek, FlacDemuxer.seek
FrameSeek(d, timeInSeconds) ==
  [d EXCEPT !.index = SeekIndex(d.frames, timeInSeconds)]

OggSeek(d, timeInSeconds) ==
  IF d.primary = 0 THEN d
  ELSE [d EXCEPT !.index = SeekIndex(d.streams[d.primary].packets, timeInSeconds)]

\* WavDemuxer.seek for a finite timeInSeconds; bytesPerSample * channels is
\* taken in bits (a whole number of bytes in every source used here)
WavSeek(d, timeInSeconds) ==
  IF ~d.info.set THEN d
  ELSE IF ~d.info.hasFormat \/ ~d.info.hasDataChunk THEN d
  ELSE LET format == d.info.format
           dataChunk == d.info.dataChunk
           targetSample == (timeInSeconds.num * Num(format.sampleRate))
                             \div timeInSeconds.den
           frameBits == Num(format.bitsPerSample) * Num(format.channels)
           byteOffset == (targetSample * frameBits) \div 8
       IN [d EXCEPT !.index = dataChunk.offset
                                + (IF byteOffset < dataChunk.size THEN byteOffset
                                   ELSE dataChunk.size),
                    !.samplesRead = Quotient(targetSample, 1)]

Seek(f, d, timeInSeconds) ==
  CASE f = "wav" -> WavSeek(d, timeInSeconds)
    [] f = "ogg" -> OggSeek(d, timeInSeconds)
    [] OTHER     -> FrameSeek(d, timeInSeconds)

\* what readPacket iterates over
FrameIndex(f, d) ==
  IF f = "ogg" THEN (IF d.primary = 0 THEN <<>> ELSE d.streams[d.primary].packets)
  ELSE d.frames

\* demuxer.seek(timeInSeconds) on a demuxer whose init() has returned; the
\* log keeps the target
seek(timeInSeconds) ==
  /\ dmx.phase = "ready"
  /\ Len(readLog) < MaxReads
  /\ dmx' = Seek(fmt, dmx, timeInSeconds)
  /\ readLog' = Append(readLog,
       [LogEntry(1, dmx, NullPacket) EXCEPT !.kind = "seek",
                                            !.timestamp = timeInSeconds])
  /\ UNCHANGED <<fmt, extVars, source>>
  /\ UNCHANGED <<muxVars, libVars>>

(***************************************************************************)
(* Input files handed to the demuxers: well-formed streams, streams with   *)
(* junk between frames, truncated streams, and streams a demuxer rejects.  *)
(***************************************************************************)
\* an ADTS frame: header for the given sample rate index, then the payload
AdtsFrame(sampleRateIndex, payload) ==
  createAdtsHeader(1, sampleRateIndex, 2, 7 + Len(payload)) \o payload

\* an MPEG audio frame with the given header bytes, zero filled
Mp3FrameBytes(h1, h2, h3) ==
  <<255, h1, h2, h3>>
    \o Zeros(parseFrameHeader(<<255, h1, h2, h3>>).frameSize - 4)

\* a FLAC frame of n >= 16 bytes: sync code, block size code 1, filler
FlacFrameBytes(n, fill) == <<255, 248, 25>> \o [i \in 1..(n - 3) |-> fill]

\* a RIFF chunk: id, size, body, pad byte if the size is odd
RiffChunk(id, body) ==
  id \o writeU32LE(Len(body)) \o body \o (IF Len(body) % 2 = 1 THEN <<0>> ELSE <<>>)

\* a fmt chunk body: PCM, the given channels, rate and bits per sample
FmtBody(channels, sampleRate, bitsPerSample) ==
  writeU16LE(WAVE_FORMAT_PCM) \o writeU16LE(channels) \o writeU32LE(sampleRate)
    \o writeU32LE(sampleRate * channels * (bitsPerSample \div 8))
    \o writeU16LE(channels * (bitsPerSample \div 8)) \o writeU16LE(bitsPerSample)

Mp3Sources ==
  { \* two MPEG1 Layer1 frames (44100 Hz), one MPEG2 Layer3 frame (22050 Hz)
    Mp3FrameBytes(255, 16, 0) \o Mp3FrameBytes(255, 16, 0)
      \o Mp3FrameBytes(243, 16, 192),
    \* ID3v2 tag with a 2-byte body, 3 junk bytes, two frames
    <<73, 68, 51, 3, 0, 0, 0, 0, 0, 2, 0, 0, 9, 9, 9>>
      \o Mp3FrameBytes(255, 16, 0) \o Mp3FrameBytes(243, 16, 192),
    \* one frame and an ID3v1 tag
    Mp3FrameBytes(243, 16, 192) \o <<84, 65, 71>> \o Zeros(125),
    \* a frame and the first 10 bytes of another
    Mp3FrameBytes(243, 16, 192) \o SubSeq(Mp3FrameBytes(255, 16, 0), 1, 10) }

AacSources ==
  { AdtsFrame(4, <<1, 2>>) \o AdtsFrame(4, <<3>>) \o AdtsFrame(4, <<4, 5, 6>>),
    \* junk, a 48000 Hz frame, a 44100 Hz frame
    <<0, 255>> \o AdtsFrame(3, <<1, 2>>) \o AdtsFrame(4, <<3, 4>>),
    \* the last frame carries a 1-byte payload
    AdtsFrame(4, <<1, 2>>) \o AdtsFrame(4, <<3>>),
    \* the last frame is cut short
    AdtsFrame(4, <<1, 2>>) \o SubSeq(AdtsFrame(4, <<3, 4, 5, 6>>), 1, 9) }

WavSources ==
  { \* what WavMuxer writes for two 16-bit stereo sample frames
    WavWriteTrailer(InitialFields("wav"), <<<<1, 2, 3, 4, 5, 6, 7, 8>>>>),
    \* LIST/INFO chunk with an odd-sized tag, 8-bit mono, odd data size
    S_RIFF \o writeU32LE(62) \o S_WAVE
      \o RiffChunk(S_LIST, S_INFO \o <<73, 78, 65, 77>> \o writeU32LE(1) \o <<65, 0>>)
      \o RiffChunk(S_fmt, FmtBody(1, 8000, 8))
      \o RiffChunk(S_data, <<1, 2, 3>>),
    \* RF64 with a ds64 chunk and placeholder sizes
    S_RF64 \o RF64_SIZE_PLACEHOLDER \o S_WAVE
      \o RiffChunk(S_ds64, writeU32LE(76) \o writeU32LE(0) \o writeU32LE(4)
                             \o writeU32LE(0) \o writeU32LE(1) \o writeU32LE(0)
                             \o writeU32LE(0))
      \o RiffChunk(S_fmt, FmtBody(2, 44100, 16))
      \o S_data \o RF64_SIZE_PLACEHOLDER \o <<1, 2, 3, 4>>,
    \* no data chunk
    S_RIFF \o writeU32LE(28) \o S_WAVE \o RiffChunk(S_fmt, FmtBody(2, 44100, 16)),
    \* not a RIFF file
    <<82, 73, 70, 88, 4, 0, 0, 0>> \o S_WAVE }

FlacSources ==
  { \* what FlacMuxer writes for two frames
    S_fLaC \o FlacWriteTrailer(InitialFields("flac"),
                               <<FlacFrameBytes(16, 1), FlacFrameBytes(18, 2)>>),
    \* a padding block, STREAMINFO, junk, one frame
    S_fLaC \o <<1, 0, 0, 2, 0, 0>> \o <<128, 0, 0, 34>>
      \o FlacStreamInfoBytes(InitialFields("flac"), 1)
      \o <<7, 255>> \o FlacFrameBytes(17, 3),
    \* no STREAMINFO block
    S_fLaC \o <<129, 0, 0, 2, 0, 0>> \o FlacFrameBytes(16, 1),
    \* not a FLAC file
    S_OggS \o <<0, 0>> }

OggSources ==
  { \* an Opus stream: granule positions 960, 1920, 2880
    writePage(OpusHeadPacket, 0, HEADER_TYPE_BOS, 0)
      \o writePage(<<1, 2>>, 960, 0, 1) \o writePage(<<3>>, 1920, 0, 2)
      \o writePage(<<4>>, 2880, HEADER_TYPE_EOS, 3),
    \* junk, then a Vorbis stream whose last page has no granule position (-1)
    <<0>> \o writePage(VorbisIdPacket, 0, HEADER_TYPE_BOS, 0)
      \o writePage(<<1>>, 1024, 0, 1) \o writePage(<<2>>, -1, 0, 2),
    \* pages out of order: granule positions 1920, 2880, 960
    writePage(OpusHeadPacket, 0, HEADER_TYPE_BOS, 0)
      \o writePage(<<1>>, 1920, 0, 1) \o writePage(<<2>>, 2880, 0, 2)
      \o writePage(<<3>>, 960, 0, 3),
    \* no identification header
    writePage(<<1, 2>>, 960, 0, 0) \o writePage(<<3>>, 1920, HEADER_TYPE_EOS, 1) }

Sources(f) ==
  CASE f = "mp3"  -> Mp3Sources
    [] f = "wav"  -> WavSources
    [] f = "flac" -> FlacSources
    [] f = "aac"  -> AacSources
    [] f = "ogg"  -> OggSources

\* track ids handed to readPacket: the id every demuxer gives its track and
\* an id no demuxer produces
DemuxTrackIds == {1, 2}

\* a demuxer over one of the input files; no muxer is in use
InitDemux ==
  /\ fmt \in Formats
  /\ source \in Sources(fmt)
  /\ dmx = NewDemuxer
  /\ readLog = <<>>
  /\ InitLib
  /\ locked = FALSE
  /\ queue = <<>>
  /\ tracks = <<>>
  /\ nextTrackId = 1
  /\ headerWritten = FALSE
  /\ finalized = FALSE
  /\ cfg = InitialFields(fmt)
  /\ packets = <<>>
  /\ out = <<>>
  /\ tasks = <<>>
  /\ hist = [headerCalls |-> 0, trailerCalls |-> 0, enterLog |-> <<>>,
             headerBy |-> 0, finalBy |-> 0, finalCfg |-> InitialFields(fmt),
             outAtFinal |-> <<>>]

NextDemux ==
  \/ init
  \/ scanStep
  \/ finishInit
  \/ \E trackId \in DemuxTrackIds : readPacket(trackId)

SpecDemux == InitDemux /\ [][NextDemux]_vars

\* init() is an async function over a source that answers every read: a
\* loop iteration that can run does run, and so does the code after the
\* loops
NextScan ==
  \/ init
  \/ scanStep
  \/ finishInit

\* the input files and every file cut short: each prefix of an input file
ScanFiles(f) == UNION {{SubSeq(s, 1, n) : n \in 0..Len(s)} : s \in Sources(f)}

\* a demuxer over one of the files above
InitScan ==
  /\ fmt \in Formats
  /\ source \in ScanFiles(fmt)
  /\ dmx = NewDemuxer
  /\ readLog = <<>>
  /\ InitLib
  /\ locked = FALSE
  /\ queue = <<>>
  /\ tracks = <<>>
  /\ nextTrackId = 1
  /\ headerWritten = FALSE
  /\ finalized = FALSE
  /\ cfg = InitialFields(fmt)
  /\ packets = <<>>
  /\ out = <<>>
  /\ tasks = <<>>
  /\ hist = [headerCalls |-> 0, trailerCalls |-> 0, enterLog |-> <<>>,
             headerBy |-> 0, finalBy |-> 0, finalCfg |-> InitialFields(fmt),
             outAtFinal |-> <<>>]

SpecScan == InitScan /\ [][NextScan]_vars

\* ENABLED <<scanStep>>_vars and ENABLED <<finishInit>>_vars, written out
ScanEnabled == dmx.phase \in {"scan", "meta"} /\ ScanStep(fmt, source, dmx) # dmx

FinishEnabled ==
  dmx.phase \in {"build", "track", "finish"} /\ FinishInit(fmt, dmx) # dmx

\* WF_vars(scanStep) /\ WF_vars(finishInit) with ENABLED as above
FairSpecScan ==
  /\ SpecScan
  /\ ([]<>~ScanEnabled) \/ ([]<><<scanStep>>_vars)
  /\ ([]<>~FinishEnabled) \/ ([]<><<finishInit>>_vars)

(***************************************************************************)
(* Round trip: one track is added, packets are written one after the       *)
(* other (each call awaited), the muxer is finalized, and the bytes the    *)
(* Writer holds are handed to the demuxer of the same format.              *)
(***************************************************************************)
\* Payloads written in the round trip: whole frames of the container (PCM
\* sample frames, MPEG frames, FLAC frames, OGG packets); for AAC both a
\* frame that carries its ADTS header and a raw one, which the muxer wraps.
Payloads(f) ==
  CASE f = "mp3"  -> {Mp3FrameBytes(255, 16, 0), Mp3FrameBytes(255, 32, 0)}
    [] f = "wav"  -> {<<1, 2, 3, 4>>, <<5, 6, 7, 8>>}
    [] f = "flac" -> {FlacFrameBytes(16, 1), FlacFrameBytes(18, 2)}
    [] f = "aac"  -> {AdtsFrame(4, <<1, 2>>), <<3, 4>>}
    [] f = "ogg"  -> {<<1, 2>>, <<3>>}

\* every call made so far has settled
Settled == \A t \in 1..Len(tasks) : tasks[t].pc = "done"

FinalizeCalled == \E t \in 1..Len(tasks) : tasks[t].kind = "finalize"

\* new Demuxer(bytes written) and its init(), once finalize() has resolved
demuxOutput ==
  /\ Settled
  /\ hist.finalBy # 0
  /\ dmx.phase = "new"
  /\ source' = out
  /\ dmx' = StartInit(fmt, out, dmx)
  /\ UNCHANGED <<fmt, extVars, readLog>>
  /\ UNCHANGED <<muxVars, libVars>>

\* the reader of the round trip stops at the first null
ReadToEnd ==
  /\ dmx.phase = "ready"
  /\ \A i \in 1..Len(readLog) : readLog[i].kind # "null"
  /\ readPacket(1)

NextRoundTrip ==
  \/ \E config \in TrackConfigs(fmt) : tracks = <<>> /\ addAudioTrack(config)
  \/ \E data \in Payloads(fmt) :
       Settled /\ tracks # <<>> /\ ~FinalizeCalled /\ writePacket(1, data)
  \/ Settled /\ tracks # <<>> /\ ~FinalizeCalled /\ finalize
  \/ \E t \in 1..Len(tasks) : enterWritePacket(t)
  \/ \E t \in 1..Len(tasks) : enterFinalize(t)
  \/ \E t \in 1..Len(tasks) : afterWriteHeader(t)
  \/ \E t \in 1..Len(tasks) : afterWriteTrailer(t)
  \/ \E t \in 1..Len(tasks) : releaseLock(t)
  \/ demuxOutput
  \/ scanStep
  \/ finishInit
  \/ ReadToEnd

SpecRoundTrip == Init /\ [][NextRoundTrip]_vars

(***************************************************************************)
(* Seeking: a demuxer is initialized, then read and repositioned.          *)
(***************************************************************************)
\* targets handed to seek, and the start and end times of a conversion:
\* 0, the timestamp of the second frame of an MP3 source, a time between
\* its second and third frame, and 1/50 s
OptionTimes ==
  {TsZero, [num |-> 32, den |-> 3675], [num |-> 1, den |-> 75],
   [num |-> 1, den |-> 50]}

NextSeek ==
  \/ init
  \/ scanStep
  \/ finishInit
  \/ readPacket(1)
  \/ \E timeInSeconds \in OptionTimes : seek(timeInSeconds)

SpecSeek == InitDemux /\ [][NextSeek]_vars

(***************************************************************************)
(* Conversion.  The Input is the demuxer over source, the Output the muxer *)
(* of the same format; both are handed to Conversion.init as they are      *)
(* after construction.                                                     *)
(***************************************************************************)
\* options.startTime / options.endTime, each either undefined or set
ConversionOptions ==
  { [hasStart |-> hs, startTime |-> st, hasEnd |-> he, endTime |-> et] :
      hs \in BOOLEAN, st \in OptionTimes, he \in BOOLEAN, et \in OptionTimes }

\* the config initialize() hands to output.addAudioTrack (no overrides)
ConfigOfTrack(f, d) ==
  [sampleRate |-> d.tracks[1].sampleRate, channels |-> d.tracks[1].channels,
   codec |-> d.tracks[1].codec, hasDescription |-> f = "ogg",
   codecDescription |-> IF f = "ogg" THEN d.streams[d.primary].codecPrivate
                        ELSE <<>>]

\* Conversion.init(opts): new Conversion(...) and initialize().  The first
\* await, input.getPrimaryTrack(), runs the demuxer's init(), modelled by
\* init / scanStep / finishInit; initialize() throws when that failed or
\* found no track.
initialize(options) ==
  /\ conv.pc = "new"
  /\ dmx.phase \in {"ready", "failed"}
  /\ IF dmx.phase = "failed" \/ Len(dmx.tracks) = 0
     THEN /\ conv' = [conv EXCEPT !.pc = "rejected"]
          /\ UNCHANGED <<dmx, tracks, nextTrackId, cfg>>
     ELSE /\ dmx' = IF options.hasStart THEN Seek(fmt, dmx, options.startTime)
                    ELSE dmx
          /\ tracks' = Append(tracks, nextTrackId)
          /\ nextTrackId' = nextTrackId + 1
          /\ cfg' = onTrackAdded(fmt, cfg, ConfigOfTrack(fmt, dmx))
          /\ conv' = [conv EXCEPT
               !.pc = "ready",
               !.hasStart = options.hasStart,
               !.startTime = IF options.hasStart THEN options.startTime ELSE TsZero,
               !.hasEnd = options.hasEnd,
               !.endTime = IF options.hasEnd THEN options.endTime ELSE TsZero,
               !.inputTrackId = dmx.tracks[1].id,
               !.outputTrackId = nextTrackId,
               !.totalDuration =
                  LET capped == IF options.hasEnd
                                THEN TsMin(dmx.duration, options.endTime)
                                ELSE dmx.duration
                  IN IF options.hasStart THEN TsSub(capped, options.startTime)
                     ELSE capped]
  /\ UNCHANGED <<fmt, extVars, source, readLog, locked, queue, headerWritten, finalized,
                 packets, out, tasks, hist, rdr, wtr, registry>>

\* execute() up to the first await of its loop
execute ==
  /\ conv.pc = "ready"
  /\ conv' = [conv EXCEPT !.pc = "loop"]
  /\ UNCHANGED <<fmt, extVars, rdr, wtr, registry>>
  /\ UNCHANGED <<muxVars, demuxVars>>

\* processPacket: packet.timestamp > this.options.endTime
beyondEnd(c, timestamp) == c.hasEnd /\ TsLt(c.endTime, timestamp)

\* a comparison that also skips the packet whose timestamp is startTime
atOrBeforeStart(c, timestamp) == c.hasStart /\ TsLeq(timestamp, c.startTime)

\* processPacket: packet.timestamp < this.options.startTime
beforeStart(c, timestamp) == c.hasStart /\ TsLt(timestamp, c.startTime)

\* an exception thrown inside execute() leaves it at once
Throw(c) ==
  [c EXCEPT !.pc = "failed", !.writeThrows = FALSE,
            !.atFailure = [calls |-> Len(tasks), reports |-> c.reports]]

\* a loop that catches the error of a write and goes on
swallowWriteError(c, result) == "loop"

\* what the loop does after "await this.processPacket(packet)" settled
afterWriteResult(c, result) == IF result = "error" THEN "failed" ELSE "loop"

\* One turn of the for-await loop: the generator awaits readPacket; a
\* rejected read leaves execute(); null ends the loop; else processPacket
\* runs up to its await of output.writePacket.
nextPacket ==
  /\ conv.pc = "loop"
  /\ \/ \* the read throws
        /\ conv' = Throw(conv)
        /\ UNCHANGED <<demuxVars, muxVars>>
     \/ LET r == ReadPacket(fmt, source, dmx, conv.inputTrackId)
        IN /\ dmx' = r.d
           /\ readLog' = Append(readLog, LogEntry(conv.inputTrackId, dmx, r.packet))
           /\ source' = source
           /\ IF r.packet.kind = "null" \/ beyondEnd(conv, r.packet.timestamp)
              THEN /\ conv' = [conv EXCEPT !.pc = "finalize"]
                   /\ UNCHANGED muxVars
              ELSE IF beforeStart(conv, r.packet.timestamp)
              THEN /\ UNCHANGED conv
                   /\ UNCHANGED muxVars
              ELSE /\ \E throws \in BOOLEAN :
                        conv' = [conv EXCEPT !.pc = "writing", !.writeThrows = throws]
                   /\ CallBody("write", conv.outputTrackId, r.packet.data)
                   /\ UNCHANGED <<tracks, nextTrackId, cfg>>
  /\ UNCHANGED <<fmt, extVars, rdr, wtr, registry>>

\* processPacket resumes after "await this.output.writePacket(...)": the
\* progress fields, reportProgress(), and back to the loop
afterWrite ==
  /\ conv.pc = "writing"
  /\ tasks[Len(tasks)].pc = "done"
  /\ IF afterWriteResult(conv, tasks[Len(tasks)].result) = "failed"
     THEN conv' = Throw(conv)
     ELSE conv' = [conv EXCEPT
            !.pc = "loop",
            !.writeThrows = FALSE,
            !.inputBytes = @ + Len(tasks[Len(tasks)].data),
            !.processedTime =
               IF conv.hasStart
               THEN TsSub(readLog[Len(readLog)].timestamp, conv.startTime)
               ELSE readLog[Len(readLog)].timestamp,
            !.reports = @ + 1,
            !.written = IF tasks[Len(tasks)].result = "ok"
                        THEN Append(@, Len(readLog)) ELSE @]
  /\ UNCHANGED <<fmt, extVars, rdr, wtr, registry>>
  /\ UNCHANGED <<muxVars, demuxVars>>

\* execute() after its loop: "await this.output.finalize()" is called
callFinalize ==
  /\ conv.pc = "finalize"
  /\ conv' = [conv EXCEPT !.pc = "finalizing"]
  /\ CallBody("finalize", 0, <<>>)
  /\ UNCHANGED <<fmt, extVars, tracks, nextTrackId, cfg, rdr, wtr, registry>>
  /\ UNCHANGED demuxVars

\* execute() resumes after finalize(): the final progress report
afterFinalize ==
  /\ conv.pc = "finalizing"
  /\ tasks[Len(tasks)].pc = "done"
  /\ IF tasks[Len(tasks)].result = "error"
     THEN conv' = Throw(conv)
     ELSE conv' = [conv EXCEPT !.pc = "done",
                               !.processedTime = conv.totalDuration,
                               !.reports = @ + 1,
                               !.finalReport = TRUE]
  /\ UNCHANGED <<fmt, extVars, rdr, wtr, registry>>
  /\ UNCHANGED <<muxVars, demuxVars>>

NextConversion ==
  \/ init
  \/ scanStep
  \/ finishInit
  \/ \E options \in ConversionOptions : initialize(options)
  \/ execute
  \/ nextPacket
  \/ afterWrite
  \/ callFinalize
  \/ afterFinalize
  \/ \E t \in 1..Len(tasks) : enterWritePacket(t)
  \/ \E t \in 1..Len(tasks) : enterFinalize(t)
  \/ \E t \in 1..Len(tasks) : afterWriteHeader(t)
  \/ \E t \in 1..Len(tasks) : afterWriteTrailer(t)
  \/ \E t \in 1..Len(tasks) : releaseLock(t)

SpecConversion == InitDemux /\ [][NextConversion]_vars

(***************************************************************************)
(* A Reader on its own: a buffer of one of several sizes around the slice  *)
(* size, or a stream, read, peeked, skipped, repositioned and closed.      *)
(***************************************************************************)
\* a muxer and a demuxer that take no part
IdleMuxer ==
  /\ locked = FALSE
  /\ queue = <<>>
  /\ tracks = <<>>
  /\ nextTrackId = 1
  /\ headerWritten = FALSE
  /\ finalized = FALSE
  /\ cfg = InitialFields(fmt)
  /\ packets = <<>>
  /\ out = <<>>
  /\ tasks = <<>>
  /\ hist = [headerCalls |-> 0, trailerCalls |-> 0, enterLog |-> <<>>,
             headerBy |-> 0, finalBy |-> 0, finalCfg |-> InitialFields(fmt),
             outAtFinal |-> <<>>]

IdleDemuxer ==
  /\ source = <<>>
  /\ dmx = NewDemuxer
  /\ readLog = <<>>

\* sizes of the buffer sources: empty, short, one slice, a little more than
\* one slice, a little more than two
ReaderSizes ==
  {0, 3, DEFAULT_SLICE_SIZE, DEFAULT_SLICE_SIZE + 4, 2 * DEFAULT_SLICE_SIZE + 8}

ReadLengths == {0, 1, 4, DEFAULT_SLICE_SIZE, DEFAULT_SLICE_SIZE + 1}

\* inside the first slice, at its end, in the second, past every source
SeekPositions ==
  {0, 2, DEFAULT_SLICE_SIZE - 2, DEFAULT_SLICE_SIZE + 1,
   2 * DEFAULT_SLICE_SIZE + 9}

InitReader ==
  /\ fmt = "wav"
  /\ IdleMuxer
  /\ IdleDemuxer
  /\ conv = NewConversion
  /\ rdr \in {NewReaderOn("buffer", size) : size \in ReaderSizes}
               \cup {NewReaderOn("stream", 0)}
  /\ wtr = NewWriter
  /\ registry = NewRegistry
  /\ InitExt

\* reader.readBytes(length)
readerReadBytes(length) ==
  /\ rdr.calls < MaxReaderCalls
  /\ rdr' = [ReaderReadBytes(rdr, length) EXCEPT !.calls = @ + 1]
  /\ UNCHANGED <<fmt, extVars, muxVars, demuxVars, conv, wtr, registry>>

\* reader.peek(length): readBytes, then the position is put back
readerPeek(length) ==
  /\ rdr.calls < MaxReaderCalls
  /\ rdr' = [ReaderReadBytes(rdr, length) EXCEPT !.calls = @ + 1,
                                                 !.position = rdr.position,
                                                 !.result.op = "peek"]
  /\ UNCHANGED <<fmt, extVars, muxVars, demuxVars, conv, wtr, registry>>

\* reader.skip(length): this._position += length
readerSkip(length) ==
  /\ rdr.calls < MaxReaderCalls
  /\ rdr' = [rdr EXCEPT !.calls = @ + 1,
                        !.position = @ + length,
                        !.result = [NoResult EXCEPT !.op = "skip", !.kind = "void",
                                                    !.requested = length,
                                                    !.before = rdr.position]]
  /\ UNCHANGED <<fmt, extVars, muxVars, demuxVars, conv, wtr, registry>>

\* reader.seek(position): this._position = position
readerSeek(position) ==
  /\ rdr.calls < MaxReaderCalls
  /\ rdr' = [rdr EXCEPT !.calls = @ + 1,
                        !.position = position,
                        !.result = [NoResult EXCEPT !.op = "seek", !.kind = "void",
                                                    !.requested = position,
                                                    !.before = rdr.position]]
  /\ UNCHANGED <<fmt, extVars, muxVars, demuxVars, conv, wtr, registry>>

\* reader.close(): the slice and the source data are dropped; the next
\* loadSlice runs init() again
readerClose ==
  /\ rdr.calls < MaxReaderCalls
  /\ rdr' = [rdr EXCEPT !.calls = @ + 1,
                        !.slice = NoSlice,
                        !.result = [NoResult EXCEPT !.op = "close", !.kind = "void",
                                                    !.before = rdr.position]]
  /\ UNCHANGED <<fmt, extVars, muxVars, demuxVars, conv, wtr, registry>>

NextReader ==
  \/ \E length \in ReadLengths : readerReadBytes(length)
  \/ \E length \in ReadLengths : readerPeek(length)
  \/ \E length \in {1, DEFAULT_SLICE_SIZE} : readerSkip(length)
  \/ \E position \in SeekPositions : readerSeek(position)
  \/ readerClose

SpecReader == InitReader /\ [][NextReader]_vars

(***************************************************************************)
(* A Writer on its own                                                     *)
(***************************************************************************)
InitWriter ==
  /\ fmt = "wav"
  /\ IdleMuxer
  /\ IdleDemuxer
  /\ conv = NewConversion
  /\ rdr = NewReader
  /\ wtr \in {NewWriterOn("stream"), NewWriterOn("buffer")}
  /\ registry = NewRegistry
  /\ InitExt

writerInit ==
  /\ wtr.calls < MaxWriterCalls
  /\ wtr' = [WriterInit(wtr) EXCEPT !.calls = @ + 1]
  /\ UNCHANGED <<fmt, extVars, muxVars, demuxVars, conv, rdr, registry>>

writerWriteBytes(data) ==
  /\ wtr.calls < MaxWriterCalls
  /\ wtr' = [WriterWriteBytes(wtr, data) EXCEPT !.calls = @ + 1]
  /\ UNCHANGED <<fmt, extVars, muxVars, demuxVars, conv, rdr, registry>>

writerClose ==
  /\ wtr.calls < MaxWriterCalls
  /\ wtr' = [WriterClose(wtr) EXCEPT !.calls = @ + 1]
  /\ UNCHANGED <<fmt, extVars, muxVars, demuxVars, conv, rdr, registry>>

NextWriter ==
  \/ writerInit
  \/ \E data \in {<<1>>, <<2, 3>>} : writerWriteBytes(data)
  \/ writerClose

SpecWriter == InitWriter /\ [][NextWriter]_vars

(***************************************************************************)
(* canRead of the five input formats, detectFormat, and the registry       *)
(***************************************************************************)
\* reader.readU32BE() at pos compared with a magic number
MagicAt(src, pos, magic) ==
  LET r == readBytes(src, pos, 4) IN r.ok /\ r.data = magic

Mp3CanRead(src) ==
  LET header == readBytes(src, 0, 10)
  IN IF ~header.ok THEN FALSE
     ELSE IF SubSeq(header.data, 1, 3) = <<73, 68, 51>> THEN TRUE
     ELSE IF header.data[1] = 255 /\ header.data[2] \div 32 = 7
          THEN parseFrameHeader(header.data).found
          ELSE FALSE

\* header[0] === 0xFF && (header[1] & 0xF6) === 0xF0
AacCanRead(src) ==
  LET header == readBytes(src, 0, 4)
  IN /\ header.ok
     /\ header.data[1] = 255
     /\ header.data[2] \div 16 = 15
     /\ (header.data[2] \div 2) % 4 = 0

WavCanRead(src) ==
  /\ MagicAt(src, 0, S_RIFF) \/ MagicAt(src, 0, S_RF64)
  /\ MagicAt(src, 8, S_WAVE)

canRead(name, src) ==
  CASE name = "mp3"  -> Mp3CanRead(src)
    [] name = "aac"  -> AacCanRead(src)
    [] name = "wav"  -> WavCanRead(src)
    [] name = "flac" -> MagicAt(src, 0, S_fLaC)
    [] name = "ogg"  -> MagicAt(src, 0, S_OggS)

\* a detection that keeps asking and returns the last format that matches
RECURSIVE lastMatch(_, _, _, _)
lastMatch(formats, src, k, d) ==
  IF k > Len(formats) THEN d
  ELSE lastMatch(formats, src, k + 1,
         IF canRead(formats[k].name, src)
         THEN [d EXCEPT !.asked = Append(@, formats[k]), !.found = TRUE,
                        !.format = formats[k]]
         ELSE [d EXCEPT !.asked = Append(@, formats[k])])

\* the loop of detectFormat from the k-th registered format on
RECURSIVE firstMatch(_, _, _, _)
firstMatch(formats, src, k, d) ==
  IF k > Len(formats) THEN d
  ELSE IF canRead(formats[k].name, src)
  THEN [d EXCEPT !.asked = Append(@, formats[k]), !.found = TRUE,
                 !.format = formats[k]]
  ELSE firstMatch(formats, src, k + 1, [d EXCEPT !.asked = Append(@, formats[k])])

\* the format objects handed to registerInput / registerInputFormat: one
\* instance of each class and a second instance of Mp3InputFormat
InputFormatObjects ==
  {[name |-> n, instance |-> 1] : n \in Formats}
    \cup {[name |-> "mp3", instance |-> 2]}

\* the format objects handed to registerOutput / registerOutputFormat
OutputFormatObjects ==
  {[name |-> "wav", instance |-> 1], [name |-> "wav", instance |-> 2],
   [name |-> "mp3", instance |-> 1]}

\* sources handed to detectFormat: an empty source, a source no format
\* reads, an 8-byte source that starts like an MP3 frame, an ID3v2 tag, and
\* a file of each format
DetectSources ==
  {<<>>, <<1, 2, 3, 4, 5, 6, 7, 8, 9, 10, 11, 12>>,
   SubSeq(Mp3FrameBytes(255, 16, 0), 1, 8),
   <<73, 68, 51, 3, 0, 0, 0, 0, 0, 2, 0, 0>>,
   Mp3FrameBytes(255, 16, 0),
   AdtsFrame(4, <<1, 2, 3>>),
   WavWriteTrailer(InitialFields("wav"), <<<<1, 2, 3, 4>>>>),
   S_fLaC \o FlacWriteTrailer(InitialFields("flac"), <<FlacFrameBytes(16, 1)>>),
   writePage(OpusHeadPacket, 0, HEADER_TYPE_BOS, 0)}

InitRegistry ==
  /\ fmt = "wav"
  /\ IdleMuxer
  /\ IdleDemuxer
  /\ conv = NewConversion
  /\ rdr = NewReader
  /\ wtr = NewWriter
  /\ registry = NewRegistry
  /\ InitExt

\* registerInputFormat(format) of the input module
registerInputFormat(format) ==
  /\ registry.calls < MaxRegistrations
  /\ registry' = [registry EXCEPT !.inputFormats = Append(@, format),
                                  !.calls = @ + 1]
  /\ UNCHANGED <<fmt, extVars, muxVars, demuxVars, conv, rdr, wtr>>

\* registerOutputFormat(format) of the output module
registerOutputFormat(format) ==
  /\ registry.calls < MaxRegistrations
  /\ registry' = [registry EXCEPT !.outputFormats = Append(@, format),
                                  !.calls = @ + 1]
  /\ UNCHANGED <<fmt, extVars, muxVars, demuxVars, conv, rdr, wtr>>

\* formats.registerInput(format)
registerInput(format) ==
  /\ registry.calls < MaxRegistrations
  /\ registry' = [registry EXCEPT !.inputMap = MapSet(@, format),
                                  !.inputFormats = Append(@, format),
                                  !.calls = @ + 1]
  /\ UNCHANGED <<fmt, extVars, muxVars, demuxVars, conv, rdr, wtr>>

\* formats.registerOutput(format)
registerOutput(format) ==
  /\ registry.calls < MaxRegistrations
  /\ registry' = [registry EXCEPT !.outputMap = MapSet(@, format),
                                  !.outputFormats = Append(@, format),
                                  !.calls = @ + 1]
  /\ UNCHANGED <<fmt, extVars, muxVars, demuxVars, conv, rdr, wtr>>

\* detectFormat(src) on a buffer source, called once
detectFormat(src) ==
  /\ ~registry.detect.done
  /\ source' = src
  /\ registry' = [registry EXCEPT !.detect =
       firstMatch(registry.inputFormats, src, 1,
                  [NoDetection EXCEPT !.done = TRUE,
                                      !.formats = registry.inputFormats])]
  /\ UNCHANGED <<fmt, extVars, muxVars, dmx, readLog, conv, rdr, wtr>>

NextRegistry ==
  \/ \E format \in InputFormatObjects : registerInputFormat(format)
  \/ \E format \in OutputFormatObjects : registerOutputFormat(format)
  \/ \E format \in InputFormatObjects : registerInput(format)
  \/ \E format \in OutputFormatObjects : registerOutput(format)
  \/ \E src \in DetectSources : detectFormat(src)

SpecRegistry == InitRegistry /\ [][NextRegistry]_vars

(***************************************************************************)
(* Properties of the Muxer and its AsyncMutex                              *)
(***************************************************************************)
TaskIds == 1..Len(tasks)

\* tasks inside withLock's try block, or handed the lock and about to enter
Holders == {t \in TaskIds : tasks[t].pc \in {"acquired", "header", "trailer", "body"}}

Waiting == {t \in TaskIds : tasks[t].pc = "waiting"}

\* the subclass buffer after the successful writePacket calls among the first
\* n calls, taken in call order
RECURSIVE PacketsOf(_)
PacketsOf(n) ==
  IF n = 0 THEN <<>>
  ELSE LET before == PacketsOf(n - 1)
       IN IF tasks[n].kind = "write" /\ tasks[n].result = "ok"
          THEN writeAudioPacket(fmt, cfg, before, tasks[n].data)
          ELSE before

\* C1: once finalize() has completed, every later writePacket call is
\* rejected with an error (and its packet is stored nowhere).
C1_WriteAfterFinalizeRejected ==
  \A t \in TaskIds :
    (tasks[t].kind = "write" /\ tasks[t].finalizedAtCall
       /\ tasks[t].pc \in {"body", "done"})
      => tasks[t].result = "error"

\* C2: at most one call is inside the critical section at any moment, the
\* lock is held exactly while some call is inside, and the calls that found
\* the mutex held are exactly the suspended ones, waiting in the queue.
C2_MutualExclusion ==
  /\ Cardinality(Holders) <= 1
  /\ locked <=> Holders # {}
  /\ {queue[i] : i \in 1..Len(queue)} = Waiting
  /\ Len(queue) = Cardinality(Waiting)
  /\ Waiting # {} => locked

C2_Witness ==
  \E t, u \in TaskIds :
    /\ tasks[t].pc \in {"header", "trailer", "body"}
    /\ tasks[t].grantedBy # 0
    /\ tasks[u].pc = "waiting"

\* C3: the critical sections are entered in the order of the calls (FIFO),
\* the buffered packets are those of the successful writePacket calls in call
\* order, and the bytes the Writer holds after finalize are the header
\* followed by the trailer built from exactly the packets of the calls made
\* before that finalize.
C3_FifoOrder ==
  /\ hist.enterLog = [i \in 1..Len(hist.enterLog) |-> i]
  /\ \A i, j \in 1..Len(queue) : i < j => queue[i] < queue[j]
  /\ packets = PacketsOf(Len(tasks))
  /\ finalized =>
       out = writeHeader(fmt)
               \o writeTrailer(fmt, hist.finalCfg, PacketsOf(hist.finalBy - 1))

C3_Witness ==
  /\ Len(tasks) >= 3
  /\ tasks[1].kind = "write" /\ tasks[1].result = "ok"
  /\ tasks[2].kind = "write" /\ tasks[2].result = "ok"
  /\ tasks[2].grantedBy = 1
  /\ tasks[3].kind = "finalize" /\ tasks[3].grantedBy = 2
  /\ finalized
  /\ Len(packets) = 2

\* C4: writeHeader runs exactly once, in the first call that enters the
\* critical section, before any packet is buffered or any trailer written,
\* and never again.
C4_HeaderExactlyOnce ==
  /\ hist.headerCalls <= 1
  /\ hist.enterLog # <<>> =>
       (hist.headerCalls = 1 /\ hist.headerBy = hist.enterLog[1])
  /\ hist.headerCalls = 0 =>
       (out = <<>> /\ packets = <<>> /\ hist.trailerCalls = 0)
  /\ (packets # <<>> \/ hist.trailerCalls > 0) => headerWritten
  /\ hist.headerCalls = 1 =>
       SubSeq(out, 1, Len(writeHeader(fmt))) = writeHeader(fmt)

C4_Witness ==
  /\ fmt = "flac"
  /\ hist.headerCalls = 1
  /\ Len(hist.enterLog) >= 3
  /\ finalized
  /\ Len(packets) >= 1

\* C5: whatever the outcome of the function run under the mutex, the mutex
\* is free once no call is inside, and every suspended call is eventually
\* handed the lock and settles.
C5_ReleasedOnFailure ==
  /\ [](Holders = {} => (~locked /\ queue = <<>>))
  /\ \A t \in 1..MaxCalls :
       (Len(tasks) >= t /\ tasks[t].pc = "waiting")
         ~> (Len(tasks) >= t /\ tasks[t].pc = "done")

C5_Witness ==
  \E t \in TaskIds :
    /\ tasks[t].pc = "done"
    /\ tasks[t].grantedBy # 0
    /\ tasks[tasks[t].grantedBy].result = "error"

\* C6: a finalize() called after a finalize() that completed fails, never
\* runs writeTrailer, and the bytes held by the Writer stay those of the
\* first finalize.
C6_RepeatedFinalizeFails ==
  /\ \A t \in TaskIds :
       (tasks[t].kind = "finalize" /\ tasks[t].finalizedAtCall) =>
         /\ tasks[t].pc \notin {"header", "trailer"}
         /\ tasks[t].pc \in {"body", "done"} => tasks[t].result = "error"
  /\ hist.trailerCalls <= 1
  /\ finalized => out = hist.outAtFinal

C6_Witness ==
  \E t \in TaskIds :
    /\ tasks[t].kind = "finalize"
    /\ tasks[t].finalizedAtCall
    /\ tasks[t].pc = "done"
    /\ tasks[t].result = "error"
    /\ Len(out) > 0

\* C7 as stated: a writePacket call whose track id addAudioTrack had not
\* returned when the call was made fails.
C7_UnknownAtCallFails ==
  \A t \in TaskIds :
    (tasks[t].kind = "write" /\ ~tasks[t].knownAtCall
       /\ tasks[t].pc \in {"body", "done"})
      => tasks[t].result = "error"

\* C7 amended: a writePacket call whose track id is not among the muxer's
\* tracks when its critical section looks the track up fails, and its packet
\* is not buffered; a call whose id is among them then is accepted.
C7_UnknownAtLookupFails ==
  /\ \A t \in TaskIds :
       (tasks[t].kind = "write" /\ tasks[t].pc \in {"body", "done"}) =>
         (tasks[t].result = "error" <=> ~tasks[t].knownAtLookup)
  /\ Len(packets) =
       Cardinality({t \in TaskIds : tasks[t].kind = "write"
                                      /\ tasks[t].pc \in {"body", "done"}
                                      /\ tasks[t].knownAtLookup})

C7_Witness ==
  \E t, u \in TaskIds :
    /\ tasks[t].kind = "write" /\ tasks[t].pc = "done"
    /\ ~tasks[t].knownAtLookup /\ tasks[t].result = "error"
    /\ tasks[u].kind = "write" /\ tasks[u].pc = "done"
    /\ ~tasks[u].knownAtCall /\ tasks[u].knownAtLookup /\ tasks[u].result = "ok"

(***************************************************************************)
(* Properties of the demuxers                                              *)
(***************************************************************************)
\* the payloads of the writePacket calls that succeeded, in call order
RECURSIVE WrittenFrom(_)
WrittenFrom(t) ==
  IF t > Len(tasks) THEN <<>>
  ELSE IF tasks[t].kind = "write" /\ tasks[t].result = "ok"
       THEN tasks[t].data \o WrittenFrom(t + 1)
       ELSE WrittenFrom(t + 1)

\* the data of the packets readPacket returned, in order
RECURSIVE ReadFrom(_)
ReadFrom(i) ==
  IF i > Len(readLog) THEN <<>>
  ELSE IF readLog[i].kind = "packet" THEN readLog[i].data \o ReadFrom(i + 1)
       ELSE ReadFrom(i + 1)

\* C8: once init() has returned, a readPacket(trackId) with an id that is
\* not the id of a track of the demuxer is rejected with an error; it does
\* not resolve to null, the end-of-stream result.
C8_UnknownTrackRejected ==
  \A i \in 1..Len(readLog) :
    (readLog[i].phase = "ready" /\ ~readLog[i].produced)
      => readLog[i].kind = "error"

\* C9: the packets successive readPacket calls return have timestamps that
\* are non-negative and that never decrease from one packet to the next.
C9_TimestampsMonotone ==
  \A i \in 1..Len(readLog) :
    readLog[i].kind = "packet" =>
      /\ TsLeq(TsZero, readLog[i].timestamp)
      /\ \A j \in 1..(i - 1) :
           readLog[j].kind = "packet"
             => TsLeq(readLog[j].timestamp, readLog[i].timestamp)

\* C10: when the output of a muxer that was given one 44100 Hz, 2-channel
\* track and at least one packet has been demuxed and read to the end, the
\* demuxer reports one track with sample rate 44100 and 2 channels, and the
\* packets read, concatenated, are the payloads written, concatenated.
C10_RoundTrip ==
  /\ dmx.phase # "failed"
  /\ (/\ dmx.phase = "ready"
      /\ \E t \in 1..Len(tasks) : tasks[t].kind = "write"
      /\ \E i \in 1..Len(readLog) : readLog[i].kind = "null")
       => /\ Len(dmx.tracks) = 1
          /\ dmx.tracks[1].sampleRate = 44100
          /\ dmx.tracks[1].channels = 2
          /\ ReadFrom(1) = WrittenFrom(1)

(***************************************************************************)
(* MP3 files with noise between two frames: N frames, each one of two      *)
(* kinds, and 17 bytes put in after the third.                             *)
(***************************************************************************)
\* header bytes 2..4 of the two kinds of frame: MPEG1 Layer1 at 44100 Hz
\* (34 bytes, 384 samples) and MPEG2 Layer3 at 22050 Hz (26 bytes, 576
\* samples)
Layer1Frame == <<255, 16, 0>>
Layer3Frame == <<243, 16, 192>>

FrameOfKind(h) == Mp3FrameBytes(h[1], h[2], h[3])

\* the seconds one frame of the kind lasts: samplesPerFrame / sampleRate
SecondsOfKind(h) ==
  IF h = Layer1Frame THEN Quotient(384, 44100) ELSE Quotient(576, 22050)

ResyncFrameLists ==
  { <<Layer1Frame, Layer1Frame, Layer3Frame>>,
    <<Layer1Frame, Layer1Frame, Layer1Frame, Layer1Frame>>,
    <<Layer1Frame, Layer3Frame, Layer1Frame, Layer3Frame>>,
    <<Layer3Frame, Layer1Frame, Layer1Frame, Layer1Frame, Layer3Frame>> }

\* the 17 bytes: zeros; 1..17; all 0xFF; a header of a 417-byte MPEG1 Layer3
\* frame in the middle; a header of a 34-byte Layer1 frame at the end
ResyncNoise ==
  { Zeros(17),
    [i \in 1..17 |-> i],
    [i \in 1..17 |-> 255],
    Zeros(5) \o <<255, 251, 144, 0>> \o Zeros(8),
    Zeros(13) \o <<255, 255, 16, 0>> }

ResyncInputs == [kinds : ResyncFrameLists, noise : ResyncNoise]

RECURSIVE FramesOfKinds(_)
FramesOfKinds(kinds) ==
  IF Len(kinds) = 0 THEN <<>>
  ELSE FrameOfKind(Head(kinds)) \o FramesOfKinds(Tail(kinds))

\* the file: three frames, the noise, the frames that remain
ResyncFile(in) ==
  FramesOfKinds(SubSeq(in.kinds, 1, 3)) \o in.noise
    \o FramesOfKinds(SubSeq(in.kinds, 4, Len(in.kinds)))

InitResync ==
  /\ fmt = "mp3"
  /\ source \in {ResyncFile(in) : in \in ResyncInputs}
  /\ dmx = NewDemuxer
  /\ readLog = <<>>
  /\ InitLib
  /\ IdleMuxer

NextResync ==
  \/ init
  \/ scanStep
  \/ finishInit
  \/ readPacket(1)

SpecResync == InitResync /\ [][NextResync]_vars

(***************************************************************************)
(* AAC files of back-to-back ADTS frames at one sample rate: 1 to 3        *)
(* frames with payloads of 0 to 2 bytes (frame_length 7 to 9).             *)
(***************************************************************************)
AdtsPayloadLengths ==
  UNION { [1..n -> {0, 1, 2}] : n \in 1..3 }

\* sampling frequency indices 3 (48000 Hz) and 4 (44100 Hz)
AdtsInputs == [sampleRateIndex : {3, 4}, lengths : AdtsPayloadLengths]

\* the bytes of frame k: the header and a payload that names the frame
AdtsFrameOf(in, k) ==
  AdtsFrame(in.sampleRateIndex, [i \in 1..in.lengths[k] |-> 10 * k + i])

RECURSIVE AdtsFramesUpTo(_, _)
AdtsFramesUpTo(in, k) ==
  IF k = 0 THEN <<>> ELSE AdtsFramesUpTo(in, k - 1) \o AdtsFrameOf(in, k)

AdtsFile(in) == AdtsFramesUpTo(in, Len(in.lengths))

InitAdts ==
  /\ fmt = "aac"
  /\ source \in {AdtsFile(in) : in \in AdtsInputs}
  /\ dmx = NewDemuxer
  /\ readLog = <<>>
  /\ InitLib
  /\ IdleMuxer

NextAdts ==
  \/ init
  \/ scanStep
  \/ finishInit
  \/ readPacket(1)

SpecAdts == InitAdts /\ [][NextAdts]_vars

(***************************************************************************)
(* The OGG fixture page: "OggS", version 0, header type 2 (BOS), granule   *)
(* position 0, serial 1, sequence 0, checksum, one segment of size 0.      *)
(***************************************************************************)
BosPageBeforeCrc ==
  S_OggS \o <<0, 2>> \o Zeros(8) \o writeU32LE(1) \o Zeros(4) \o Zeros(4)
    \o <<1>> \o <<0>>

\* the fixture with the checksum field replaced by the computed OGG CRC
BosFixture == SetCrc(BosPageBeforeCrc, calculateOggCrc(BosPageBeforeCrc))

\* a freshly constructed OggDemuxer over the fixture, with the checksum
\* computed or still zero
InitBos ==
  /\ fmt = "ogg"
  /\ source \in {BosFixture, BosPageBeforeCrc}
  /\ dmx = NewDemuxer
  /\ readLog = <<>>
  /\ InitLib
  /\ IdleMuxer

NextBos ==
  \/ init
  \/ scanStep
  \/ finishInit
  \/ readPacket(1)

SpecBos == InitBos /\ [][NextBos]_vars

(***************************************************************************)
(* AutoWavMuxer: addAudioTrack, writePacket and finalize, each call        *)
(* awaited before the next (the mutex of the base class serialises them).  *)
(***************************************************************************)
\* AutoWavMuxer.writeTrailer: the first FourCC of writeRf64Trailer or of
\* writeWavTrailer
AutoWriteTrailer(a) ==
  [a EXCEPT !.out = @ \o (IF a.needsRf64 THEN S_RF64 ELSE S_RIFF)]

\* packet lengths: 0, 1, 2^31 - 101, 2^31, MAX_WAV_SIZE
AutoPacketLengths ==
  {Big(0, 0), Big(0, 1), Big(32767, 65435), Big(32768, 0), MAX_WAV_SIZE}

autoAddAudioTrack ==
  /\ auto.calls < MaxAutoCalls
  /\ ~auto.hasTrack
  /\ auto' = [auto EXCEPT !.hasTrack = TRUE, !.calls = @ + 1]
  /\ UNCHANGED <<fmt, muxVars, demuxVars, libVars, bits, inp>>

\* writePacket(1, packet): writeHeader writes nothing; the call throws when
\* the track was not added
autoWritePacket(length) ==
  /\ auto.calls < MaxAutoCalls
  /\ LET a == [auto EXCEPT !.headerWritten = TRUE, !.calls = @ + 1]
         b == AutoWriteAudioPacket(a, length)
     IN auto' = IF ~auto.hasTrack THEN a
                ELSE [b EXCEPT !.everNeeded = @ \/ b.needsRf64]
  /\ UNCHANGED <<fmt, muxVars, demuxVars, libVars, bits, inp>>

\* finalize(): throws when already finalized
autoFinalize ==
  /\ auto.calls < MaxAutoCalls
  /\ LET a == [auto EXCEPT !.calls = @ + 1]
     IN auto' = IF auto.finalized THEN a
                ELSE [AutoWriteTrailer(a) EXCEPT !.headerWritten = TRUE,
                                                 !.finalized = TRUE,
                                                 !.atFinal = a.audioData]
  /\ UNCHANGED <<fmt, muxVars, demuxVars, libVars, bits, inp>>

InitAuto ==
  /\ fmt = "wav"
  /\ IdleMuxer
  /\ IdleDemuxer
  /\ InitLib

NextAuto ==
  \/ autoAddAudioTrack
  \/ \E length \in AutoPacketLengths : autoWritePacket(length)
  \/ autoFinalize

SpecAuto == InitAuto /\ [][NextAuto]_vars

(***************************************************************************)
(* WavDemuxer.seek with targets before, inside and after the data          *)
(***************************************************************************)
\* -1/4410 s, -1/44100 s, 0, 1/44100 s, 1/8000 s, 1 s
WavSeekTimes ==
  {[num |-> -1, den |-> 4410], [num |-> -1, den |-> 44100], TsZero,
   [num |-> 1, den |-> 44100], [num |-> 1, den |-> 8000], [num |-> 1, den |-> 1]}

InitWavSeek ==
  /\ fmt = "wav"
  /\ source \in WavSources
  /\ dmx = NewDemuxer
  /\ readLog = <<>>
  /\ InitLib
  /\ IdleMuxer

NextWavSeek ==
  \/ init
  \/ scanStep
  \/ finishInit
  \/ readPacket(1)
  \/ \E timeInSeconds \in WavSeekTimes : seek(timeInSeconds)

SpecWavSeek == InitWavSeek /\ [][NextWavSeek]_vars

(***************************************************************************)
(* A BitWriter under writeBit, writeBits and getBuffer                     *)
(***************************************************************************)
\* (value, count) pairs handed to writeBits
BitsValues == {<<5, 3>>, <<255, 8>>, <<1, 9>>}

bwWriteBit(bit) ==
  /\ bits.calls < MaxBitCalls
  /\ bits' = [bits EXCEPT !.w = BwWriteBit(@, bit), !.calls = @ + 1,
                          !.written = @ + 1]
  /\ UNCHANGED <<fmt, muxVars, demuxVars, libVars, auto, inp>>

bwWriteBits(value, count) ==
  /\ bits.calls < MaxBitCalls
  /\ bits' = [bits EXCEPT !.w = BwWriteBits(@, value, count), !.calls = @ + 1,
                          !.written = @ + count]
  /\ UNCHANGED <<fmt, muxVars, demuxVars, libVars, auto, inp>>

bwGetBuffer ==
  /\ bits.calls < MaxBitCalls
  /\ LET g == BwGetBuffer(bits.w)
     IN bits' = [bits EXCEPT !.w = g.w, !.calls = @ + 1, !.gets = @ + 1,
                             !.returned = g.result]
  /\ UNCHANGED <<fmt, muxVars, demuxVars, libVars, auto, inp>>

InitBits ==
  /\ fmt = "flac"
  /\ IdleMuxer
  /\ IdleDemuxer
  /\ InitLib

NextBitWriter ==
  \/ \E bit \in {0, 1} : bwWriteBit(bit)
  \/ \E vc \in BitsValues : bwWriteBits(vc[1], vc[2])
  \/ bwGetBuffer

SpecBitWriter == InitBits /\ [][NextBitWriter]_vars

(***************************************************************************)
(* writeRice on a new BitWriter, getBuffer, readRice on a BitReader over   *)
(* the bytes                                                               *)
(***************************************************************************)
\* values from -2^20 to 2^20 and parameters from 0 to 20 whose unary part
\* is at most 40 bits long
RiceInputs ==
  {vk \in {-1048576, -17, -16, -3, -1, 0, 1, 2, 16, 17, 1048576}
            \X {0, 1, 4, 16, 20} :
     ZigZag(vk[1]) \div (2 ^ vk[2]) <= 40}

bwWriteRice(value, param) ==
  /\ bits.calls = 0
  /\ bits' = [bits EXCEPT !.w = BwWriteRice(@, value, param), !.calls = @ + 1,
                          !.written = bits.w.totalBits,
                          !.rice = [set |-> TRUE, value |-> value,
                                    param |-> param]]
  /\ UNCHANGED <<fmt, muxVars, demuxVars, libVars, auto, inp>>

\* new BitReader(writer.getBuffer()).readRice(param)
brReadRice ==
  /\ bits.rice.set
  /\ bits.gets > 0
  /\ bits.read.kind = "none"
  /\ LET r == BrReadRice(NewBitReader(bits.returned), bits.rice.param)
     IN bits' = [bits EXCEPT !.read = IF r.ok
                                      THEN [kind |-> "value", value |-> r.value]
                                      ELSE [kind |-> "error", value |-> 0]]
  /\ UNCHANGED <<fmt, muxVars, demuxVars, libVars, auto, inp>>

NextRice ==
  \/ \E vk \in RiceInputs : bwWriteRice(vk[1], vk[2])
  \/ bwGetBuffer
  \/ brReadRice

SpecRice == InitBits /\ [][NextRice]_vars

(***************************************************************************)
(* FLAC files as FlacMuxer writes them for a track of bit depth 1..32:     *)
(* magic, STREAMINFO, one or two frames.                                   *)
(***************************************************************************)
FlacBitDepths == 1..32

FlacFileOfDepth(b, pkts) ==
  S_fLaC \o FlacWriteTrailer([InitialFields("flac") EXCEPT !.bitsPerSample = b],
                             pkts)

FlacDepthPackets ==
  {<<FlacFrameBytes(16, 1)>>, <<FlacFrameBytes(16, 1), FlacFrameBytes(18, 2)>>}

InitStreamInfo ==
  /\ fmt = "flac"
  /\ source \in {FlacFileOfDepth(b, pkts) : b \in FlacBitDepths,
                                            pkts \in FlacDepthPackets}
  /\ dmx = NewDemuxer
  /\ readLog = <<>>
  /\ InitLib
  /\ IdleMuxer

NextStreamInfo ==
  \/ init
  \/ scanStep
  \/ finishInit
  \/ readPacket(1)

SpecStreamInfo == InitStreamInfo /\ [][NextStreamInfo]_vars

(***************************************************************************)
(* A further init() on a demuxer whose init() was called before            *)
(***************************************************************************)
\* "if (this._initialized) return": the call resolves at once, without
\* error; the log keeps the phase the first init() was in at that moment
initAgain ==
  /\ dmx.initialized
  /\ Len(readLog) < MaxReads
  /\ readLog' = Append(readLog,
                       [LogEntry(1, dmx, NullPacket) EXCEPT !.kind = "init"])
  /\ UNCHANGED <<fmt, extVars, source, dmx>>
  /\ UNCHANGED <<muxVars, libVars>>

NextReinit ==
  \/ init
  \/ scanStep
  \/ finishInit
  \/ initAgain
  \/ readPacket(1)

SpecReinit == InitDemux /\ [][NextReinit]_vars

(***************************************************************************)
(* Input: accessor calls (getTracks, getMetadata, getDuration,             *)
(* getFormatName) issued without waiting for one another.  Each runs       *)
(* ensureInit() and then reads this.demuxer.  demuxers lists the demuxers  *)
(* created, "running" while their init() is pending and "done" after.      *)
(***************************************************************************)
\* this.demuxer = this.format.createDemuxer(this.source); the call then
\* waits for this.demuxer.init()
CreateDemuxer(i, c) ==
  [i EXCEPT !.demuxers = Append(@, "running"),
            !.demuxer = Len(i.demuxers) + 1,
            !.calls[c].pc = "init",
            !.calls[c].own = Len(i.demuxers) + 1]

\* an accessor is called: ensureInit() runs to its first await
inputCall ==
  /\ Len(inp.calls) < MaxInputCalls
  /\ LET c == Len(inp.calls) + 1
         called == [inp EXCEPT !.calls = Append(@,
                      [pc |-> "resolved", own |-> 0, demuxer |-> 0,
                       initDone |-> FALSE])]
     IN inp' = IF inp.initialized THEN called
               ELSE IF ~inp.hasFormat
               THEN [called EXCEPT !.calls[c].pc = "detect"]
               ELSE CreateDemuxer(called, c)
  /\ UNCHANGED <<fmt, muxVars, demuxVars, libVars, auto, bits>>

\* "this.format = await detectFormat(this.source)" resolves with a format
inputDetected(c) ==
  /\ inp.calls[c].pc = "detect"
  /\ inp' = CreateDemuxer([inp EXCEPT !.hasFormat = TRUE], c)
  /\ UNCHANGED <<fmt, muxVars, demuxVars, libVars, auto, bits>>

\* init() of one of the demuxers completes
demuxerInitDone(d) ==
  /\ inp.demuxers[d] = "running"
  /\ inp' = [inp EXCEPT !.demuxers[d] = "done"]
  /\ UNCHANGED <<fmt, muxVars, demuxVars, libVars, auto, bits>>

\* "await this.demuxer.init()" of call c resumes: this.initialized = true
inputInitialized(c) ==
  /\ inp.calls[c].pc = "init"
  /\ inp.demuxers[inp.calls[c].own] = "done"
  /\ inp' = [inp EXCEPT !.initialized = TRUE, !.calls[c].pc = "resolved"]
  /\ UNCHANGED <<fmt, muxVars, demuxVars, libVars, auto, bits>>

\* the accessor resumes after "await this.ensureInit()" and reads
\* this.demuxer
inputReturn(c) ==
  /\ inp.calls[c].pc = "resolved"
  /\ inp' = [inp EXCEPT !.calls[c].pc = "done",
                        !.calls[c].demuxer = inp.demuxer,
                        !.calls[c].initDone = inp.demuxers[inp.demuxer] = "done"]
  /\ UNCHANGED <<fmt, muxVars, demuxVars, libVars, auto, bits>>

\* new Input({source}) and new Input({source, format})
InitInput ==
  /\ fmt = "ogg"
  /\ IdleMuxer
  /\ IdleDemuxer
  /\ conv = NewConversion
  /\ rdr = NewReader
  /\ wtr = NewWriter
  /\ registry = NewRegistry
  /\ auto = NewAutoWavMuxer
  /\ bits = NewBits
  /\ inp \in {[NewInput EXCEPT !.hasFormat = h] : h \in BOOLEAN}

NextInput ==
  \/ inputCall
  \/ \E c \in 1..Len(inp.calls) : inputDetected(c)
  \/ \E d \in 1..Len(inp.demuxers) : demuxerInitDone(d)
  \/ \E c \in 1..Len(inp.calls) : inputInitialized(c)
  \/ \E c \in 1..Len(inp.calls) : inputReturn(c)

SpecInput == InitInput /\ [][NextInput]_vars

(***************************************************************************)
(* Properties of the Conversion                                            *)
(***************************************************************************)
\* positions in readLog of the packets read before the first packet whose
\* timestamp is > endTime and whose timestamp is >= startTime
InRange ==
  {i \in 1..Len(readLog) :
     /\ readLog[i].kind = "packet"
     /\ ~(conv.hasEnd /\ ~TsLeq(readLog[i].timestamp, conv.endTime))
     /\ conv.hasStart => TsLeq(conv.startTime, readLog[i].timestamp)}

\* C11: execute() reads packets until EOF or the first packet with
\* timestamp > endTime (nothing is read after either), and once it has
\* returned the packets the output accepted are exactly the read packets
\* with timestamp >= startTime, in the order read; while it runs, every
\* packet written is one of those and they are written in the order read.
C11_TimeRange ==
  /\ \A i \in 1..Len(readLog) :
       (\/ readLog[i].kind = "null"
        \/ conv.hasEnd /\ ~TsLeq(readLog[i].timestamp, conv.endTime))
         => i = Len(readLog)
  /\ \A k \in 1..Len(conv.written) :
       /\ conv.written[k] \in InRange
       /\ \A j \in 1..(k - 1) : conv.written[j] < conv.written[k]
  /\ conv.pc \in {"loop", "finalize", "finalizing", "done"}
       => Len(conv.written) = Cardinality(InRange)
  /\ conv.pc = "done"
       => /\ Len(tasks) = Len(conv.written) + 1
          /\ \A k \in 1..Len(conv.written) :
               /\ tasks[k].kind = "write"
               /\ tasks[k].data = readLog[conv.written[k]].data

\* a finished conversion that skipped a packet before startTime, wrote a
\* packet, and stopped at a packet after endTime
C11_Witness ==
  /\ conv.pc = "done"
  /\ conv.hasStart /\ conv.hasEnd
  /\ Len(conv.written) > 0
  /\ \E i \in 1..Len(readLog) :
       /\ readLog[i].kind = "packet"
       /\ ~TsLeq(conv.startTime, readLog[i].timestamp)
       /\ i < conv.written[1]
  /\ readLog[Len(readLog)].kind = "packet"
  /\ ~TsLeq(readLog[Len(readLog)].timestamp, conv.endTime)

\* C12: when a read or a write fails, execute() is left at once: the failed
\* write is the last call made on the output, nothing is reported or
\* written afterwards, finalize is never called and the final progress
\* report is not emitted.
C12_FailureStops ==
  /\ \A t \in 1..Len(tasks) :
       (tasks[t].result = "error" /\ tasks[t].pc = "done")
         => /\ t = Len(tasks)
            /\ conv.pc \in {"writing", "failed"}
  /\ conv.pc = "failed"
       => /\ Len(tasks) = conv.atFailure.calls
          /\ conv.reports = conv.atFailure.reports
          /\ \A t \in 1..Len(tasks) : tasks[t].kind = "write" /\ tasks[t].pc = "done"
          /\ Len(packets) = Len(conv.written)
          /\ ~finalized
          /\ hist.trailerCalls = 0
          /\ ~conv.finalReport

\* a write failed after another had succeeded, and execute() has thrown
C12_Witness ==
  /\ conv.pc = "failed"
  /\ Len(conv.written) > 0
  /\ tasks[Len(tasks)].result = "error"

(***************************************************************************)
(* Properties of the Reader                                                *)
(***************************************************************************)
\* the last call was a readBytes on a buffer source
ReadOnBuffer == rdr.type = "buffer" /\ rdr.result.op = "readBytes"

\* the part of the claim about reads that fit and about the reloaded slice
ReadWithinSource ==
  LET p == rdr.result.before
      n == rdr.result.requested
  IN /\ (ReadOnBuffer /\ p + n <= rdr.size)
          => /\ rdr.result.kind = "bytes"
             /\ rdr.result.from = p
             /\ rdr.result.length = n
             /\ rdr.position = p + n
     /\ (ReadOnBuffer /\ rdr.result.reloaded /\ p <= rdr.size)
          => /\ rdr.slice.offset = p
             /\ rdr.slice.start = p
             /\ LET wanted == IF n > DEFAULT_SLICE_SIZE THEN n ELSE DEFAULT_SLICE_SIZE
                IN rdr.slice.length = IF wanted < rdr.size - p THEN wanted
                                      ELSE rdr.size - p

\* C13 as stated: a read that fits returns the bytes at [p, p+n) and
\* advances by n, a reload caches max(n, 64 KiB) bytes at p (fewer near the
\* end), and every read with p+n > S returns null and leaves the position.
C13_ReadBytesAsStated ==
  /\ ReadWithinSource
  /\ (ReadOnBuffer /\ rdr.result.before + rdr.result.requested > rdr.size)
       => /\ rdr.result.kind = "null"
          /\ rdr.position = rdr.result.before

\* C13: a read that fits returns the bytes at [p, p+n) and advances by n, a
\* reload caches max(n, 64 KiB) bytes at p (fewer near the end), and a read
\* of n >= 1 bytes with p+n > S returns null and leaves the position; a
\* read of 0 bytes at a position past the end returns an empty array.
C13_ReadBytes ==
  /\ ReadWithinSource
  /\ (ReadOnBuffer /\ rdr.result.before + rdr.result.requested > rdr.size)
       => /\ rdr.position = rdr.result.before
          /\ IF rdr.result.requested >= 1 THEN rdr.result.kind = "null"
             ELSE rdr.result.kind = "bytes" /\ rdr.result.length = 0

\* a read that started inside the cached slice and ran past its end (a
\* reload) returned the bytes asked for
C13_Witness ==
  /\ ReadOnBuffer
  /\ rdr.result.kind = "bytes"
  /\ rdr.result.reloaded
  /\ rdr.result.before > 0
  /\ rdr.result.before < DEFAULT_SLICE_SIZE
  /\ rdr.result.before + rdr.result.requested > DEFAULT_SLICE_SIZE
  /\ rdr.calls > 1

\* C14: on a stream source seek fails with an error and the cursor stays
\* where it was.
C14_StreamSeekRejected ==
  (rdr.type = "stream" /\ rdr.result.op = "seek")
    => rdr.result.kind = "error" /\ rdr.position = rdr.result.before

(***************************************************************************)
(* Properties of the Writer                                                *)
(***************************************************************************)
\* C15: on a stream target every byte written has been handed to the
\* stream as soon as writeBytes returns, whether or not init() was called,
\* and nothing is kept in the in-memory buffer; so after close() the
\* stream holds every output byte in write order.
C15_StreamWriteThrough ==
  wtr.type = "stream"
    => /\ wtr.received = wtr.written
       /\ wtr.buffers = <<>>
       /\ wtr.closed => wtr.streamClosed

C17_RegisterIdempotent ==
  LET once(list) == \A i, j \in 1..Len(list) : list[i].name = list[j].name => i = j
  IN /\ once(registry.inputMap)
     /\ once(registry.outputMap)
     /\ once(registry.inputFormats)
     /\ once(registry.outputFormats)

(***************************************************************************)
(* Properties of seek                                                      *)
(***************************************************************************)
\* the frame at or after the target: k is the first position of the frame
\* index (counted from 1) whose timestamp is >= timeInSeconds
IsFirstAtOrAfter(k, timeInSeconds) ==
  LET frames == FrameIndex(fmt, dmx)
  IN /\ k \in 1..Len(frames)
     /\ TsLeq(timeInSeconds, frames[k].timestamp)
     /\ \A j \in 1..(k - 1) : ~TsLeq(timeInSeconds, frames[j].timestamp)

\* C18: for MP3, AAC, FLAC and OGG, right after seek(t) the cursor is
\* max(0, i-1) for the first frame i (counted from 0) with timestamp >= t,
\* and a readPacket that follows returns the frame at the cursor; when no
\* frame has timestamp >= t the cursor is at the end and the readPacket
\* that follows returns null.
C18_SeekIndex ==
  \A i \in 1..Len(readLog) :
    (fmt # "wav" /\ readLog[i].kind = "seek") =>
      LET frames == FrameIndex(fmt, dmx)
          t == readLog[i].timestamp
          cursor(k) == IF k >= 2 THEN k - 2 ELSE 0
      IN IF \E k \in 1..Len(frames) : TsLeq(t, frames[k].timestamp)
         THEN \E k \in 1..Len(frames) :
                /\ IsFirstAtOrAfter(k, t)
                /\ i = Len(readLog) => dmx.index = cursor(k)
                /\ i < Len(readLog) /\ readLog[i + 1].kind # "seek"
                     => /\ readLog[i + 1].kind = "packet"
                        /\ readLog[i + 1].data = frames[cursor(k) + 1].data
                        /\ readLog[i + 1].timestamp = frames[cursor(k) + 1].timestamp
         ELSE /\ i = Len(readLog) => dmx.index = Len(frames)
              /\ i < Len(readLog) /\ readLog[i + 1].kind # "seek"
                   => readLog[i + 1].kind = "null"

\* a seek to a time after the second frame put the cursor on the second
\* frame, which the next readPacket returned
C18_Witness ==
  \E i \in 1..(Len(readLog) - 1) :
    /\ fmt # "wav"
    /\ readLog[i].kind = "seek"
    /\ readLog[i + 1].kind = "packet"
    /\ TsLt(TsZero, readLog[i + 1].timestamp)
    /\ TsLt(readLog[i + 1].timestamp, readLog[i].timestamp)
(***************************************************************************)
(* Properties of the MP3 resynchronisation                                 *)
(***************************************************************************)
\* the seconds before frame k of the list
RECURSIVE SecondsBefore(_, _)
SecondsBefore(kinds, k) ==
  IF k <= 1 THEN TsZero
  ELSE TsAdd(SecondsBefore(kinds, k - 1), SecondsOfKind(kinds[k - 1]))

\* a header that parses starts at one of the 17 inserted bytes
FalseSync(in) ==
  LET first == Len(FramesOfKinds(SubSeq(in.kinds, 1, 3)))
      file == ResyncFile(in)
  IN \E p \in (first + 1)..(first + 17) :
       /\ p + 3 <= Len(file)
       /\ parseFrameHeader(SubSeq(file, p, p + 3)).found

\* the readPacket calls that returned a packet, in call order
PacketsRead == SelectSeq(readLog, LAMBDA e : e.kind = "packet")

\* init() found every frame of the list, each with its bytes and with the
\* timestamp it has in the file without the inserted bytes; readPacket
\* returns them in that order, and null only after the last
AllFramesReturned(in) ==
  /\ Len(dmx.frames) = Len(in.kinds)
  /\ \A k \in 1..Len(in.kinds) :
       /\ k <= Len(dmx.frames)
       /\ dmx.frames[k].data = FrameOfKind(in.kinds[k])
       /\ dmx.frames[k].timestamp = SecondsBefore(in.kinds, k)
  /\ \A j \in 1..Len(PacketsRead) :
       /\ j <= Len(in.kinds)
       /\ PacketsRead[j].data = FrameOfKind(in.kinds[j])
       /\ PacketsRead[j].timestamp = SecondsBefore(in.kinds, j)
  /\ \A i \in 1..Len(readLog) :
       (readLog[i].kind = "null" /\ readLog[i].phase = "ready")
         => Len(SelectSeq(SubSeq(readLog, 1, i), LAMBDA e : e.kind = "packet"))
              = Len(in.kinds)

C20_BackToBackFrames ==
  \A in \in AdtsInputs :
    (source = AdtsFile(in) /\ dmx.phase = "ready") =>
      LET N == Len(in.lengths)
          sr == AAC_SAMPLE_RATES[in.sampleRateIndex + 1]
      IN /\ Len(dmx.tracks) = 1
         /\ dmx.tracks[1].codec = "aac"
         /\ Len(dmx.frames) = N
         /\ \A k \in 1..N : dmx.frames[k].data = AdtsFrameOf(in, k)
         /\ \A j \in 1..Len(PacketsRead) :
              j <= N /\ PacketsRead[j].data = AdtsFrameOf(in, j)
         /\ dmx.duration = Quotient(N * 1024, sr)
(***************************************************************************)
(* Properties of the OGG fixture page                                      *)
(***************************************************************************)
\* C21: once init() has resolved on the fixture page with its computed
\* checksum, the demuxer holds exactly one stream, and that stream has
\* zero packets.
C21_BosFixtureOneStream ==
  (source = BosFixture /\ dmx.phase = "ready")
    => /\ Len(dmx.streams) = 1
       /\ Len(dmx.streams[1].packets) = 0
(***************************************************************************)
(* Properties of the AutoWavMuxer                                          *)
(***************************************************************************)
\* the sum of a sequence of packet lengths
RECURSIVE BigSum(_)
BigSum(lengths) ==
  IF Len(lengths) = 0 THEN Big(0, 0)
  ELSE BigAdd(Head(lengths), BigSum(Tail(lengths)))

\* C22: the upgrade flag is set exactly when the payload bytes written so
\* far, however split into packets, exceed 0xFFFFFFFF - 100; once set it
\* stays set; and what finalize emitted is the RF64 layout exactly when
\* the bytes written before it exceed that limit, the RIFF layout
\* otherwise.
C22_LayoutByTotal ==
  /\ auto.totalDataSize = BigSum(auto.audioData)
  /\ auto.needsRf64 <=> BigLt(MAX_WAV_SIZE, BigSum(auto.audioData))
  /\ auto.everNeeded => auto.needsRf64
  /\ auto.finalized =>
       auto.out = IF BigLt(MAX_WAV_SIZE, BigSum(auto.atFinal))
                  THEN S_RF64 ELSE S_RIFF
  /\ ~auto.finalized => auto.out = <<>>

\* two packets that add up to exactly the limit gave the RIFF layout
C22_Witness ==
  /\ auto.finalized
  /\ Len(auto.atFinal) = 2
  /\ BigSum(auto.atFinal) = MAX_WAV_SIZE
  /\ auto.atFinal[1] # Big(0, 0) /\ auto.atFinal[2] # Big(0, 0)
  /\ auto.out = S_RIFF
(***************************************************************************)
(* Properties of WavDemuxer.seek                                           *)
(***************************************************************************)
\* C23: once init() of a WavDemuxer has found the fmt and data chunks,
\* the byte cursor stays inside the data chunk, after every seek(t) and
\* every readPacket: dataChunk.offset <= currentPosition <=
\* dataChunk.offset + dataChunk.size.
C23_SeekClamped ==
  (fmt = "wav" /\ dmx.phase = "ready" /\ dmx.info.set
     /\ dmx.info.hasFormat /\ dmx.info.hasDataChunk)
    => /\ dmx.info.dataChunk.offset <= dmx.index
       /\ dmx.index <= dmx.info.dataChunk.offset + dmx.info.dataChunk.size
(***************************************************************************)
(* Properties of the bit stream                                            *)
(***************************************************************************)
\* C24: readRice(k) on the bits writeRice(v, k) produced returns v, and
\* raises no error.
C24_RiceRoundTrip ==
  bits.read.kind # "none"
    => /\ bits.read.kind = "value"
       /\ bits.read.value = bits.rice.value

\* C30: BitWriter.length is the number of bytes getBuffer() returns, which
\* is ceil(bits written / 8), whatever writes and getBuffer() calls came
\* before.
C30_LengthIsBufferLength ==
  /\ BwLength(bits.w) = Len(BwGetBuffer(bits.w).result)
  /\ BwLength(bits.w) = (bits.written + 7) \div 8
(***************************************************************************)
(* Properties of the FLAC STREAMINFO                                       *)
(***************************************************************************)
\* C25: a FLAC file FlacMuxer wrote for a track of bit depth b, for every
\* b in 1..32, is read back by FlacDemuxer with one track of bitDepth b
\* (the 5-bit field b - 1 is decoded as its value plus 1).
C25_BitDepthReadBack ==
  \A b \in FlacBitDepths : \A pkts \in FlacDepthPackets :
    (source = FlacFileOfDepth(b, pkts) /\ dmx.phase = "ready")
      => /\ Len(dmx.tracks) = 1
         /\ dmx.tracks[1].bitDepth = b
(***************************************************************************)
(* Properties of a rejected writePacket                                    *)
(***************************************************************************)
\* C26: when every call made so far was a writePacket that was rejected
\* (its track id is unknown), the muxer is as it was constructed: the
\* header-written flag is still false and no byte has reached the Writer.
C26_RejectedWriteNoEffect ==
  (/\ Len(tasks) >= 1
   /\ \A t \in 1..Len(tasks) :
        /\ tasks[t].kind = "write"
        /\ tasks[t].pc = "done"
        /\ tasks[t].result = "error")
    => /\ ~headerWritten
       /\ out = <<>>
(***************************************************************************)
(* Properties of the Input                                                 *)
(***************************************************************************)
\* C27: however the accessor calls on a new Input interleave, at most one
\* demuxer is created, and every accessor that has returned read a
\* demuxer whose init() had completed.
C27_OneInitialisedDemuxer ==
  /\ Len(inp.demuxers) <= 1
  /\ \A c \in 1..Len(inp.calls) :
       inp.calls[c].pc = "done" => inp.calls[c].initDone
\* C28: an init() call that returned without error returned from a demuxer
\* whose initialisation had completed: not one whose first init() was still
\* running, and not one whose first init() had thrown.
C28_InitReturnsInitialised ==
  \A i \in 1..Len(readLog) :
    readLog[i].kind = "init" => readLog[i].phase = "ready"
\* init() is inside one of its loops
Scanning == dmx.phase \in {"scan", "meta"}

\* init() has returned or thrown
InitEnded == dmx.phase \in {"ready", "failed"}

\* C29: on every input file each iteration of a loop of init() leaves the
\* loop or moves the reader position strictly forward, and init() that has
\* entered its loops ends.
C29_ScanTerminates ==
  /\ [][scanStep => \/ dmx'.phase # dmx.phase
                    \/ dmx'.position > dmx.position]_vars
  /\ Scanning ~> InitEnded

\* init() has ended after a scan that skipped bytes before its first frame
C29_Witness ==
  /\ dmx.phase = "ready"
  /\ Len(dmx.frames) > 0
  /\ dmx.frames[1].offset > 0
  /\ dmx.position > dmx.frames[1].offset
====
